---- MODULE Spec2Model ----
(***************************************************************************)
(* Scope/symbol binder of the language server: the symbol table            *)
(* (analysis/symbol_table.rs, analysis/scope.rs, analysis/symbol.rs) and   *)
(* the binder's walk over a syntax tree (analysis/binder.rs).              *)
(***************************************************************************)
EXTENDS Integers, Sequences, FiniteSets, TLC

(***************************************************************************)
(* Option<T>: None is the empty sequence, Some(v) the one-element one.     *)
(***************************************************************************)
None == <<>>

Some(v) == <<v>>

IsSome(o) == Len(o) = 1

\* the result of a loop of the code that never exits
Diverges == <<0, 0>>

(***************************************************************************)
(* lsp_types::Position and Range: a position is <<line, character>>,       *)
(* ordered lexicographically (the derived Ord of Position).                *)
(***************************************************************************)
\* u32::MAX, the line of the end of the root scope's range.  TLC's integers
\* end at 2^31 - 1, which stands for it: it is only ever compared with the
\* lines of the tree, all far below.
U32Max == 2147483647

Position(line, character) == <<line, character>>

PosLeq(p, q) == p[1] < q[1] \/ (p[1] = q[1] /\ p[2] <= q[2])

Range(s, e) == [start |-> s, end |-> e]

(***************************************************************************)
(* SymbolFlags: a bitset whose flags each own a distinct bit; a value is   *)
(* modelled as the set of the names of its set bits, `|` is \cup,          *)
(* intersects is a non-empty intersection, contains is \subseteq.          *)
(***************************************************************************)
SymbolFlags ==
    { "VARIABLE", "FUNCTION", "CLASS", "INTERFACE", "ENUM", "TYPE_ALIAS",
      "PARAMETER", "PROPERTY", "METHOD", "NAMESPACE", "ENUM_MEMBER",
      "TYPE_PARAMETER", "CONST", "LET", "EXPORTED", "DEFAULT", "ASYNC",
      "STATIC", "READONLY", "PRIVATE", "PROTECTED", "PUBLIC", "ABSTRACT",
      "HOISTED", "IMPORT", "EXPORT" }

intersects(flags, other) == flags \cap other # {}

\* a routing table without a type namespace
NoTypeNamespaceFlags == {}

\* the flags create_symbol routes into the type namespace
TypeNamespaceFlags == { "INTERFACE", "TYPE_ALIAS", "TYPE_PARAMETER" }

(***************************************************************************)
(* Symbol (analysis/symbol.rs).                                            *)
(***************************************************************************)
SymbolNew(id, name, flags, declaration_range, name_range, scope_id) ==
    [ id |-> id, name |-> name, flags |-> flags,
      declaration_range |-> declaration_range, name_range |-> name_range,
      references |-> <<>>, scope_id |-> scope_id ]

\* Symbol::add_reference
SymbolAddReference(symbol, range) ==
    [symbol EXCEPT !.references = Append(@, range)]

(***************************************************************************)
(* Scope (analysis/scope.rs).  The two namespaces are maps from a name to  *)
(* a symbol id: functions whose domain is the set of the declared names.   *)
(***************************************************************************)
ScopeKind == { "Global", "Function", "Block", "Class", "ForLoop", "Catch",
               "Switch", "With" }

EmptyMap == [n \in {} |-> 0]

\* HashMap::insert: the entry of an existing key is overwritten
MapInsert(map, key, value) == (key :> value) @@ map

\* HashMap::get(..).copied()
MapGet(map, key) == IF key \in DOMAIN map THEN Some(map[key]) ELSE None

ScopeNew(id, kind, parent, range) ==
    [ id |-> id, kind |-> kind, parent |-> parent, children |-> <<>>,
      range |-> range, symbols |-> EmptyMap, type_symbols |-> EmptyMap ]

\* an add_symbol that leaves the entry of a name already present alone
add_symbol_keeping_first(scope, name, symbol_id) ==
    [scope EXCEPT !.symbols = @ @@ (name :> symbol_id)]

add_symbol(scope, name, symbol_id) ==
    [scope EXCEPT !.symbols = MapInsert(@, name, symbol_id)]

\* an add_type_symbol that writes to the value namespace
add_type_symbol_as_value(scope, name, symbol_id) ==
    [scope EXCEPT !.symbols = MapInsert(@, name, symbol_id)]

add_type_symbol(scope, name, symbol_id) ==
    [scope EXCEPT !.type_symbols = MapInsert(@, name, symbol_id)]

lookup_local(scope, name) == MapGet(scope.symbols, name)

lookup_type_local(scope, name) == MapGet(scope.type_symbols, name)

contains_position(scope, pos) ==
    PosLeq(scope.range.start, pos) /\ PosLeq(pos, scope.range.end)

(***************************************************************************)
(* SymbolTable (analysis/symbol_table.rs): a record of the two arenas and  *)
(* the two id counters.  The operations take a table and return the new    *)
(* table (and the id they return).                                         *)
(***************************************************************************)
\* a range for scope 0 that ends where it starts
RootRangeEmpty == Range(Position(0, 0), Position(0, 0))

RootRange == Range(Position(0, 0), Position(U32Max, 0))

\* a table that starts out with a block under its root scope
SymbolTableWithBlock ==
    [ symbols |-> EmptyMap,
      scopes |-> (0 :> [ScopeNew(0, "Global", None, RootRange)
                           EXCEPT !.children = <<1>>])
                 @@ (1 :> ScopeNew(1, "Block", Some(0), RootRange)),
      root_scope_id |-> 0,
      next_symbol_id |-> 0,
      next_scope_id |-> 2 ]

SymbolTableNew ==
    [ symbols |-> EmptyMap,
      scopes |-> (0 :> ScopeNew(0, "Global", None, RootRange)),
      root_scope_id |-> 0,
      next_symbol_id |-> 0,
      next_scope_id |-> 1 ]

\* a routing that knows the value namespace only
RouteSymbolToValues(scope, name, flags, id) == add_symbol(scope, name, id)

\* the scope after the `if let Some(scope) = self.scopes.get_mut(&scope_id)`
\* branch of create_symbol
RouteSymbol(scope, name, flags, id) ==
    IF intersects(flags, TypeNamespaceFlags)
    THEN add_type_symbol(scope, name, id)
    ELSE add_symbol(scope, name, id)

\* a create_symbol that hands out the id 0 every time
create_symbol_id_zero(t, name, flags, decl_range, name_range, scope_id) ==
    [ table |-> [t EXCEPT !.next_symbol_id = t.next_symbol_id + 1,
                          !.symbols =
                              MapInsert(@, 0,
                                        SymbolNew(0, name, flags, decl_range,
                                                  name_range, scope_id))],
      id |-> 0 ]

\* a create_symbol that indexes in the root scope the symbol of a scope it
\* does not know
create_symbol_adopting(t, name, flags, decl_range, name_range, scope_id) ==
    LET id == t.next_symbol_id
        home == IF scope_id \in DOMAIN t.scopes THEN scope_id
                ELSE t.root_scope_id
    IN  [ table |-> [t EXCEPT !.next_symbol_id = id + 1,
                              !.scopes[home] = RouteSymbol(@, name, flags, id),
                              !.symbols =
                                  MapInsert(@, id,
                                            SymbolNew(id, name, flags,
                                                      decl_range, name_range,
                                                      scope_id))],
          id |-> id ]

\* a create_symbol that indexes every symbol in the root scope
create_symbol_in_root(t, name, flags, decl_range, name_range, scope_id) ==
    [ table |-> [t EXCEPT !.next_symbol_id = t.next_symbol_id + 1,
                          !.scopes[t.root_scope_id] =
                              RouteSymbol(@, name, flags, t.next_symbol_id),
                          !.symbols =
                              MapInsert(@, t.next_symbol_id,
                                        SymbolNew(t.next_symbol_id, name,
                                                  flags, decl_range,
                                                  name_range, scope_id))],
      id |-> t.next_symbol_id ]

create_symbol(t, name, flags, declaration_range, name_range, scope_id) ==
    LET id == t.next_symbol_id
        symbol == SymbolNew(id, name, flags, declaration_range, name_range,
                            scope_id)
        scopes1 == IF scope_id \in DOMAIN t.scopes
                   THEN [t.scopes EXCEPT
                           ![scope_id] = RouteSymbol(@, name, flags, id)]
                   ELSE t.scopes
    IN  [ table |-> [t EXCEPT !.next_symbol_id = id + 1,
                              !.scopes = scopes1,
                              !.symbols = MapInsert(@, id, symbol)],
          id |-> id ]

\* a create_scope that leaves the parent's list of children alone
create_scope_unlinked(t, kind, parent_id, range) ==
    [ table |-> [t EXCEPT !.next_scope_id = t.next_scope_id + 1,
                          !.scopes = MapInsert(@, t.next_scope_id,
                                         ScopeNew(t.next_scope_id, kind,
                                                  Some(parent_id), range))],
      id |-> t.next_scope_id ]

\* the scope is inserted first; only then is the parent looked up
create_scope(t, kind, parent_id, range) ==
    LET id == t.next_scope_id
        scopes1 == MapInsert(t.scopes, id,
                             ScopeNew(id, kind, Some(parent_id), range))
        scopes2 == IF parent_id \in DOMAIN scopes1
                   THEN [scopes1 EXCEPT
                           ![parent_id].children = Append(@, id)]
                   ELSE scopes1
    IN  [ table |-> [t EXCEPT !.next_scope_id = id + 1, !.scopes = scopes2],
          id |-> id ]

get_symbol(t, id) == MapGet(t.symbols, id)

get_scope(t, id) == MapGet(t.scopes, id)

\* the `while let Some(id) = current_scope_id` loop of lookup and of
\* lookup_type; `seen` holds the scopes the loop has been at: being at one
\* of them again with the same table is a loop that never exits
RECURSIVE LookupLoop(_, _, _, _, _)
LookupLoop(t, name, current_scope_id, types, seen) ==
    IF ~IsSome(current_scope_id) THEN None
    ELSE LET id == current_scope_id[1] IN
         IF id \notin DOMAIN t.scopes THEN None
         ELSE IF id \in seen THEN Diverges
         ELSE LET scope == t.scopes[id]
                  hit == IF types THEN lookup_type_local(scope, name)
                                  ELSE lookup_local(scope, name)
              IN  IF IsSome(hit) THEN hit
                  ELSE LookupLoop(t, name, scope.parent, types,
                                  seen \cup {id})

\* a lookup that consults the starting scope only
lookup_without_parents(t, name, scope_id) ==
    IF scope_id \in DOMAIN t.scopes
    THEN lookup_local(t.scopes[scope_id], name)
    ELSE None

lookup(t, name, scope_id) == LookupLoop(t, name, Some(scope_id), FALSE, {})

lookup_type(t, name, scope_id) ==
    LookupLoop(t, name, Some(scope_id), TRUE, {})

\* an add_reference that forgets what was recorded before
add_reference_replacing(t, symbol_id, range) ==
    IF symbol_id \in DOMAIN t.symbols
    THEN [t EXCEPT !.symbols[symbol_id].references = <<range>>]
    ELSE t

add_reference(t, symbol_id, range) ==
    IF symbol_id \in DOMAIN t.symbols
    THEN [t EXCEPT !.symbols[symbol_id] = SymbolAddReference(@, range)]
    ELSE t

find_references(t, symbol_id) ==
    IF symbol_id \in DOMAIN t.symbols
    THEN <<t.symbols[symbol_id].name_range>>
             \o t.symbols[symbol_id].references
    ELSE <<>>

\* the result of find_scope_at_position where its recursion never returns
\* (a scope reached again on the way down): no scope id
Overflows == 0 - 1

\* a search of the children that finds none
NoChildContaining(t, children, pos, i) == 0

\* the first child of the list, from index i on, that is in the arena and
\* contains pos; 0 if there is none
RECURSIVE FirstChildContaining(_, _, _, _)
FirstChildContaining(t, children, pos, i) ==
    IF i > Len(children) THEN 0
    ELSE IF /\ children[i] \in DOMAIN t.scopes
            /\ contains_position(t.scopes[children[i]], pos)
         THEN i
         ELSE FirstChildContaining(t, children, pos, i + 1)

\* path: the scopes the recursion is already inside
RECURSIVE FindScopeLoop(_, _, _, _)
FindScopeLoop(t, scope_id, pos, path) ==
    IF scope_id \in path THEN Overflows
    ELSE IF scope_id \notin DOMAIN t.scopes THEN t.root_scope_id
    ELSE LET scope == t.scopes[scope_id]
             i == FirstChildContaining(t, scope.children, pos, 1)
         IN  IF i # 0
             THEN FindScopeLoop(t, scope.children[i], pos,
                                path \cup {scope_id})
             ELSE IF contains_position(scope, pos) THEN scope_id
             ELSE t.root_scope_id

find_scope_at_position(t, scope_id, pos) ==
    FindScopeLoop(t, scope_id, pos, {})

scope_at_position(t, pos) ==
    find_scope_at_position(t, t.root_scope_id, pos)

(***************************************************************************)
(* The syntax tree the parser hands to the binder (tree_sitter::Tree).     *)
(* A tree is an arena: a function from node ids 1..n (the root is 1, ids   *)
(* in pre-order) to nodes carrying what the binder reads of a Node: its    *)
(* kind, its source text, its parent (0: none), its ordered children, its  *)
(* named fields (child_by_field_name) and its start and end positions.     *)
(*                                                                         *)
(* Trees are written as terms [kind, text, kids], kids a sequence of       *)
(* [f |-> field name or "", t |-> term, nl |-> starts on a new line],      *)
(* and laid out by Lay: every token is one column wide, tokens follow each *)
(* other without white space, a kid marked nl starts the next line.        *)
(***************************************************************************)
Leaf(kind, text) == [kind |-> kind, text |-> text, kids |-> <<>>]

\* an anonymous token: its kind is its text
Tk(text) == Leaf(text, text)

K(kind, kids) == [kind |-> kind, text |-> "", kids |-> kids]

F(field, term) == [f |-> field, t |-> term, nl |-> FALSE]

U(term) == [f |-> "", t |-> term, nl |-> FALSE]

NL(term) == [f |-> "", t |-> term, nl |-> TRUE]

RECURSIVE Lay(_, _, _, _)
RECURSIVE LayKids(_, _, _, _)
Lay(term, id, parent, pos) ==
    IF term.kids = <<>>
    THEN LET e == IF term.text = "" THEN pos
                  ELSE Position(pos[1], pos[2] + 1)
         IN  [ nodes |-> (id :> [ kind |-> term.kind, text |-> term.text,
                                  parent |-> parent, children |-> <<>>,
                                  fields |-> EmptyMap,
                                  start |-> pos, end |-> e ]),
               next |-> id + 1, start |-> pos, pos |-> e,
               text |-> term.text ]
    ELSE LET r == LayKids(term.kids, id + 1, id, pos)
         IN  [ nodes |-> (id :> [ kind |-> term.kind, text |-> r.text,
                                  parent |-> parent,
                                  children |-> r.children,
                                  fields |-> r.fields,
                                  start |-> r.start, end |-> r.pos ])
                         @@ r.nodes,
               next |-> r.next, start |-> r.start, pos |-> r.pos,
               text |-> r.text ]

LayKids(kids, id, parent, pos) ==
    IF kids = <<>>
    THEN [ nodes |-> EmptyMap, next |-> id, start |-> pos, pos |-> pos,
           children |-> <<>>, fields |-> EmptyMap, text |-> "" ]
    ELSE LET kid == Head(kids)
             at == IF kid.nl THEN Position(pos[1] + 1, 0) ELSE pos
             h == Lay(kid.t, id, parent, at)
             r == LayKids(Tail(kids), h.next, parent, h.pos)
         IN  [ nodes |-> h.nodes @@ r.nodes, next |-> r.next,
               start |-> h.start, pos |-> r.pos,
               children |-> <<id>> \o r.children,
               fields |-> IF kid.f = "" THEN r.fields
                          ELSE (kid.f :> id) @@ r.fields,
               text |-> h.text \o r.text ]

\* the arena of a term, laid out from line 0, column 0
Arena(term) == Lay(term, 1, 0, Position(0, 0)).nodes

RootNode == 1

(***************************************************************************)
(* What the binder reads of a node.                                        *)
(***************************************************************************)
\* Node::child_by_field_name
child_by_field_name(tr, n, field) == MapGet(tr[n].fields, field)

\* Binder::node_text: the slice of the source the node spans
node_text(tr, n) == tr[n].text

\* Binder::node_range
node_range(tr, n) == Range(tr[n].start, tr[n].end)

\* Binder::has_child_kind
has_child_kind(tr, n, kind) ==
    \E i \in 1..Len(tr[n].children) : tr[tr[n].children[i]].kind = kind

\* node.parent().kind(), "" for the root
parent_kind(tr, n) == IF tr[n].parent = 0 THEN "" ELSE tr[tr[n].parent].kind

(***************************************************************************)
(* The shapes of the parser's trees: one constructor per construct of the  *)
(* language the binder has a case for.  Optional parts (a name, an         *)
(* initializer, a body) are sequences of kids, empty when absent.          *)
(***************************************************************************)
Id(n) == Leaf("identifier", n)

TypeId(n) == Leaf("type_identifier", n)

PropId(n) == Leaf("property_identifier", n)

Num == Leaf("number", "1")

Named(n) == <<F("name", n)>>

Initializer(e) == <<U(Tk("=")), F("value", e)>>

Kids(terms) == [i \in 1..Len(terms) |-> U(terms[i])]

Declarator(pattern, init) ==
    K("variable_declarator", <<F("name", pattern)>> \o init)

\* kw is "const" or "let"
Lexical(kw, pattern, init) ==
    K("lexical_declaration",
      <<U(Tk(kw)), U(Declarator(pattern, init)), U(Tk(";"))>>)

VarDecl(pattern, init) ==
    K("variable_declaration",
      <<U(Tk("var")), U(Declarator(pattern, init)), U(Tk(";"))>>)

ExprStmt(e) == K("expression_statement", <<U(e), U(Tk(";"))>>)

Block(body) ==
    K("statement_block", <<U(Tk("{"))>> \o Kids(body) \o <<U(Tk("}"))>>)

Params(params) ==
    K("formal_parameters", <<U(Tk("("))>> \o Kids(params) \o <<U(Tk(")"))>>)

Required(pattern, init) ==
    K("required_parameter", <<F("pattern", pattern)>> \o init)

Func(modifiers, name, params, body) ==
    K("function_declaration",
      Kids(modifiers) \o <<U(Tk("function"))>> \o name
          \o <<F("parameters", Params(params))>> \o body)

Body(stmts) == <<F("body", Block(stmts))>>

Arrow(param, body) ==
    K("arrow_function", param \o <<U(Tk("=>")), F("body", body)>>)

Method(modifiers, name, params, body) ==
    K("method_definition",
      Kids(modifiers) \o name \o <<F("parameters", Params(params))>> \o body)

Class(name, heritage, members) ==
    K("class_declaration",
      <<U(Tk("class"))>> \o name \o heritage
          \o <<F("body", K("class_body", <<U(Tk("{"))>> \o Kids(members)
                                             \o <<U(Tk("}"))>>))>>)

Heritage(e) ==
    <<U(K("class_heritage",
          <<U(K("extends_clause", <<U(Tk("extends")), F("value", e)>>))>>))>>

Interface(name) ==
    K("interface_declaration",
      <<U(Tk("interface"))>> \o name
          \o <<F("body", K("interface_body", <<U(Tk("{")), U(Tk("}"))>>))>>)

TypeAlias(name) ==
    K("type_alias_declaration",
      <<U(Tk("type"))>> \o name
          \o <<U(Tk("=")), F("value", Leaf("predefined_type", "number")),
               U(Tk(";"))>>)

Enum(name, member) ==
    K("enum_declaration",
      <<U(Tk("enum"))>> \o name
          \o <<F("body", K("enum_body", <<U(Tk("{")), U(member),
                                          U(Tk("}"))>>))>>)

If(cond, body) ==
    K("if_statement",
      <<U(Tk("if")),
        F("condition", K("parenthesized_expression",
                         <<U(Tk("(")), U(cond), U(Tk(")"))>>)),
        F("consequence", Block(body))>>)

Catch(param, body) ==
    K("catch_clause",
      <<U(Tk("catch")), U(Tk("(")), F("parameter", param), U(Tk(")")),
        F("body", Block(body))>>)

Try(body, handler) ==
    K("try_statement",
      <<U(Tk("try")), F("body", Block(body)), F("handler", handler)>>)

Specifier(name, alias) ==
    K("import_specifier", name \o alias)

Alias(n) == <<U(Tk("as")), F("alias", Id(n))>>

Import(clause) ==
    K("import_statement",
      <<U(Tk("import")), U(K("import_clause", clause)), U(Tk("from")),
        F("source", Leaf("string", "'m'")), U(Tk(";"))>>)

NamedImports(specifiers) ==
    U(K("named_imports", <<U(Tk("{"))>> \o Kids(specifiers)
                             \o <<U(Tk("}"))>>))

NamespaceImport(name) ==
    U(K("namespace_import", <<U(Tk("*")), U(Tk("as"))>> \o name))

Export(declaration) ==
    K("export_statement", <<U(Tk("export")), F("declaration", declaration)>>)

Comment == Leaf("comment", "//")

\* the statements of a program, each after the first on a line of its own
Program(stmts) ==
    K("program", [i \in 1..Len(stmts) |->
                     IF i = 1 THEN U(stmts[i]) ELSE NL(stmts[i])])

(***************************************************************************)
(* The trees the binder is run on: every program of at most MaxSize units  *)
(* built from the statement forms below.  A form weighs 1 to 3 units (the  *)
(* plainest ones 1), a container form takes any body that still fits.      *)
(***************************************************************************)
\* the total weight of the statements of a program
MaxSize == 3

W(w, term) == [t |-> term, w |-> w]

LeafForms ==
    { \* const x = 1;          x;
      W(1, Lexical("const", Id("x"), Initializer(Num))),
      W(1, ExprStmt(Id("x"))),
      \* let y = x;            var x = 1;
      W(2, Lexical("let", Id("y"), Initializer(Id("x")))),
      W(2, VarDecl(Id("x"), Initializer(Num))),
      \* interface x {}        type y = number;        enum x { A }
      W(2, Interface(Named(TypeId("x")))),
      W(2, TypeAlias(Named(TypeId("y")))),
      W(2, Enum(Named(Id("x")), PropId("A"))),
      \* class x {}            // a comment
      W(2, Class(Named(TypeId("x")), <<>>, <<>>)),
      W(2, Comment),
      \* class y extends x {}
      W(2, Class(Named(TypeId("y")), Heritage(Id("x")), <<>>)),
      \* const { x, k: y } = 1;
      W(2, Lexical("const",
                   K("object_pattern",
                     <<U(Tk("{")),
                       U(Leaf("shorthand_property_identifier_pattern", "x")),
                       U(Tk(",")),
                       U(K("pair_pattern",
                           <<F("key", PropId("k")), U(Tk(":")),
                             F("value", Id("y"))>>)),
                       U(Tk("}"))>>),
                   Initializer(Num))),
      \* import { foo, bar as baz } from 'm';
      W(2, Import(<<NamedImports(<<Specifier(Named(Id("foo")), <<>>),
                                   Tk(","),
                                   Specifier(Named(Id("bar")),
                                             Alias("baz"))>>)>>)),
      \* x => x;
      W(2, ExprStmt(Arrow(<<F("parameter", Id("x"))>>, Id("x")))),
      \* declarations the parser recovered without a name:
      \* class { (x) { x; } }     interface {}     type = number;
      \* enum { A = x }           and one without a body: function x()
      W(3, Class(<<>>, <<>>,
                 <<Method(<<>>, <<>>, <<Required(Id("x"), <<>>)>>,
                          Body(<<ExprStmt(Id("x"))>>))>>)),
      W(3, Interface(<<>>)),
      W(3, TypeAlias(<<>>)),
      W(3, Enum(<<>>, K("enum_assignment",
                        <<F("name", PropId("A")), U(Tk("=")),
                          F("value", Id("x"))>>))),
      W(3, Func(<<>>, Named(Id("x")), <<>>, <<>>)),
      \* an ERROR node over the pieces of `x y = x`
      W(3, K("ERROR", <<U(Id("x")),
                        U(Declarator(Id("y"), Initializer(Id("x"))))>>)),
      \* export async function x() {}
      W(3, Export(Func(<<Tk("async")>>, Named(Id("x")), <<>>, Body(<<>>)))),
      \* import x, * as y from 'm';
      W(3, Import(<<U(Id("x")), U(Tk(",")),
                    NamespaceImport(<<U(Id("y"))>>)>>)),
      \* const [x, , ...y] = 1;
      W(3, Lexical("const",
                   K("array_pattern",
                     <<U(Tk("[")), U(Id("x")), U(Tk(",")), U(Tk(",")),
                       U(K("rest_pattern", <<U(Tk("...")), U(Id("y"))>>)),
                       U(Tk("]"))>>),
                   Initializer(Num))),
      \* let { x = 1, ...y } = 1;
      W(3, Lexical("let",
                   K("object_pattern",
                     <<U(Tk("{")),
                       U(K("object_assignment_pattern",
                           <<F("left",
                               Leaf("shorthand_property_identifier_pattern",
                                    "x")),
                             U(Tk("=")), F("right", Num)>>)),
                       U(Tk(",")),
                       U(K("rest_pattern", <<U(Tk("...")), U(Id("y"))>>)),
                       U(Tk("}"))>>),
                   Initializer(Num))),
      \* class C { m() {} m() {} }
      W(3, Class(Named(TypeId("C")), <<>>,
                 <<Method(<<>>, Named(PropId("m")), <<>>, Body(<<>>)),
                   Method(<<>>, Named(PropId("m")), <<>>, Body(<<>>))>>)),
      \* enum x { A = (() => 1)() }
      W(3, Enum(Named(Id("x")),
                K("enum_assignment",
                  <<F("name", PropId("A")), U(Tk("=")),
                    F("value",
                      K("call_expression",
                        <<F("function",
                            K("parenthesized_expression",
                              <<U(Tk("(")),
                                U(Arrow(<<F("parameters", Params(<<>>))>>,
                                        Num)),
                                U(Tk(")"))>>)),
                          F("arguments",
                            K("arguments",
                              <<U(Tk("(")), U(Tk(")"))>>))>>))>>))),
      \* (function () { });   a function expression, of kind "function"
      W(3, ExprStmt(K("parenthesized_expression",
                      <<U(Tk("(")),
                        U(K("function",
                            <<U(Tk("function")),
                              F("parameters", Params(<<>>)),
                              F("body", Block(<<>>))>>)),
                        U(Tk(")"))>>))),
      \* import { , x as y } from 'm';   (a specifier without a name)
      W(3, Import(<<NamedImports(<<Specifier(<<>>, <<>>), Tk(","),
                                   Specifier(Named(Id("x")),
                                             Alias("y"))>>)>>)) }

ContainerForms ==
    { W(1, "block"), W(1, "function"),
      W(2, "if"), W(2, "catch"), W(2, "method"), W(2, "params"),
      W(2, "arrow"), W(2, "nameless") }

Wrap(tag, body) ==
    CASE tag = "block" -> Block(body)
      \* function f() { body }
      [] tag = "function" -> Func(<<>>, Named(Id("f")), <<>>, Body(body))
      \* if (true) { body }
      [] tag = "if" -> If(Leaf("true", "true"), body)
      \* try { } catch (x) { body }
      [] tag = "catch" -> Try(<<>>, Catch(Id("x"), body))
      \* class C { m(x) { body } }
      [] tag = "method" ->
            Class(Named(TypeId("C")), <<>>,
                  <<Method(<<>>, Named(PropId("m")),
                           <<Required(Id("x"), <<>>)>>, Body(body))>>)
      \* function f(x, y = x) { body }
      [] tag = "params" ->
            Func(<<>>, Named(Id("f")),
                 <<Required(Id("x"), <<>>), Tk(","),
                   Required(Id("y"), Initializer(Id("x")))>>, Body(body))
      \* const y = (x) => { body };
      [] tag = "arrow" ->
            Lexical("const", Id("y"),
                    Initializer(Arrow(<<F("parameters",
                                          Params(<<Required(Id("x"),
                                                            <<>>)>>))>>,
                                      Block(body))))
      \* function () { body }
      [] tag = "nameless" -> Func(<<>>, <<>>, <<>>, Body(body))

\* Items(n): the statements of weight <= n; Forests(n): the sequences of
\* statements of total weight <= n; both as [t |-> term(s), w |-> weight]
RECURSIVE Items(_)
RECURSIVE Forests(_)
Items(n) ==
    { l \in LeafForms : l.w <= n }
    \cup UNION { { W(c.w + b.w, Wrap(c.t, b.t)) : b \in Forests(n - c.w) }
                 : c \in { c \in ContainerForms : c.w <= n } }

Forests(n) ==
    { W(0, <<>>) }
    \cup UNION { { W(i.w + f.w, <<i.t>> \o f.t) : f \in Forests(n - i.w) }
                 : i \in Items(n) }

Trees == { Arena(Program(f.t)) : f \in Forests(MaxSize) }

(***************************************************************************)
(* The state.                                                              *)
(*   tree              the syntax tree of the document                     *)
(*   symbol_table      Binder.symbol_table, the table being built          *)
(*   current_scope     Binder.current_scope                                *)
(*   stack             where the walk is: the calls of the recursion of    *)
(*                     visit_node still to be made, the innermost first    *)
(*   visited           the nodes visit_node was called on, in order        *)
(*   pc                "idle" outside bind_document, "binding" inside      *)
(*   doc_symbol_table  Document.symbol_table: None, or the table the last  *)
(*                     bind_document returned                              *)
(*   rebound           whether the tree has been bound a second time       *)
(*   doc_version       Document.version, which content and tree go with;   *)
(*                     0 while the document is not in the manager's map    *)
(*   table_version     the version of the content and tree that            *)
(*                     doc_symbol_table was bound from                     *)
(*   observed          None, or what a request handler last read of the    *)
(*                     document it obtained with DocumentManager::get      *)
(***************************************************************************)
VARIABLES tree, symbol_table, current_scope, stack, visited, pc,
          doc_symbol_table, rebound, doc_version, table_version, observed

vars == << tree, symbol_table, current_scope, stack, visited, pc,
           doc_symbol_table, rebound, doc_version, table_version, observed >>

(***************************************************************************)
(* The binder's helpers that only create symbols (analysis/binder.rs).     *)
(* Each loop over the children of a node is a recursion over the sequence  *)
(* of the children still to come.                                          *)
(***************************************************************************)
\* a Declare that lifts a HOISTED symbol out of the scope it was met in
DeclareLifting(tr, t, name, flags, decl, scope) ==
    create_symbol(t, node_text(tr, name), flags, node_range(tr, decl),
                  node_range(tr, name),
                  IF "HOISTED" \in flags /\ IsSome(t.scopes[scope].parent)
                  THEN t.scopes[scope].parent[1] ELSE scope).table

\* create_symbol called for the node `name`, declared by the node `decl`
Declare(tr, t, name, flags, decl, scope) ==
    create_symbol(t, node_text(tr, name), flags, node_range(tr, decl),
                  node_range(tr, name), scope).table

RECURSIVE bind_pattern(_, _, _, _, _)
RECURSIVE ObjectPatternLoop(_, _, _, _, _)
RECURSIVE RestPatternLoop(_, _, _, _, _)
RECURSIVE ArrayPatternLoop(_, _, _, _, _)
bind_pattern(tr, t, pattern, flags, scope) ==
    CASE tr[pattern].kind = "identifier" ->
            Declare(tr, t, pattern, flags, pattern, scope)
      [] tr[pattern].kind = "object_pattern" ->
            ObjectPatternLoop(tr, t, tr[pattern].children, flags, scope)
      [] tr[pattern].kind = "array_pattern" ->
            ArrayPatternLoop(tr, t, tr[pattern].children, flags, scope)
      [] tr[pattern].kind = "assignment_pattern" ->
            IF IsSome(child_by_field_name(tr, pattern, "left"))
            THEN bind_pattern(tr, t,
                              child_by_field_name(tr, pattern, "left")[1],
                              flags, scope)
            ELSE t
      [] OTHER -> t

ObjectPatternLoop(tr, t, kids, flags, scope) ==
    IF kids = <<>> THEN t
    ELSE LET child == Head(kids)
             value == child_by_field_name(tr, child, "value")
             t1 == CASE tr[child].kind
                           = "shorthand_property_identifier_pattern" ->
                          Declare(tr, t, child, flags, child, scope)
                    [] tr[child].kind = "pair_pattern" ->
                          IF IsSome(value)
                          THEN bind_pattern(tr, t, value[1], flags, scope)
                          ELSE t
                    [] tr[child].kind = "rest_pattern" ->
                          RestPatternLoop(tr, t, tr[child].children, flags,
                                          scope)
                    [] OTHER -> t
         IN  ObjectPatternLoop(tr, t1, Tail(kids), flags, scope)

RestPatternLoop(tr, t, kids, flags, scope) ==
    IF kids = <<>> THEN t
    ELSE LET rest_child == Head(kids)
             t1 == IF tr[rest_child].kind = "identifier"
                   THEN Declare(tr, t, rest_child, flags, rest_child, scope)
                   ELSE t
         IN  RestPatternLoop(tr, t1, Tail(kids), flags, scope)

ArrayPatternLoop(tr, t, kids, flags, scope) ==
    IF kids = <<>> THEN t
    ELSE LET child == Head(kids)
             t1 == IF tr[child].kind \notin {",", "[", "]"}
                   THEN bind_pattern(tr, t, child, flags, scope)
                   ELSE t
         IN  ArrayPatternLoop(tr, t1, Tail(kids), flags, scope)

\* the first child of kind identifier, if any (the loop with `break`)
RECURSIVE FirstIdentifier(_, _)
FirstIdentifier(tr, kids) ==
    IF kids = <<>> THEN None
    ELSE IF tr[Head(kids)].kind = "identifier" THEN Some(Head(kids))
    ELSE FirstIdentifier(tr, Tail(kids))

RECURSIVE ParametersLoop(_, _, _, _)
ParametersLoop(tr, t, kids, scope) ==
    IF kids = <<>> THEN t
    ELSE LET child == Head(kids)
             pattern == child_by_field_name(tr, child, "pattern")
             first == FirstIdentifier(tr, tr[child].children)
             t1 == CASE tr[child].kind \in { "required_parameter",
                                             "optional_parameter",
                                             "rest_parameter" } ->
                          IF IsSome(pattern)
                          THEN bind_pattern(tr, t, pattern[1],
                                            {"PARAMETER"}, scope)
                          ELSE IF IsSome(first)
                          THEN Declare(tr, t, first[1], {"PARAMETER"}, child,
                                       scope)
                          ELSE t
                    [] tr[child].kind = "identifier" ->
                          Declare(tr, t, child, {"PARAMETER"}, child, scope)
                    [] OTHER -> t
         IN  ParametersLoop(tr, t1, Tail(kids), scope)

\* a bind_parameters that binds nothing
bind_no_parameters(tr, t, params, scope) == t

bind_parameters(tr, t, params, scope) ==
    ParametersLoop(tr, t, tr[params].children, scope)

\* the symbol of a namespace_import node: its field name, if it has one
BindNamespaceImport(tr, t, child, scope) ==
    IF IsSome(child_by_field_name(tr, child, "name"))
    THEN Declare(tr, t, child_by_field_name(tr, child, "name")[1],
                 {"VARIABLE", "IMPORT"}, child, scope)
    ELSE t

\* import_spec.child_by_field_name("alias")
\*     .or_else(|| import_spec.child_by_field_name("name"))
\* the imported name, whatever the alias
ImportedName(tr, import_spec) == child_by_field_name(tr, import_spec, "name")

LocalName(tr, import_spec) ==
    IF IsSome(child_by_field_name(tr, import_spec, "alias"))
    THEN child_by_field_name(tr, import_spec, "alias")
    ELSE child_by_field_name(tr, import_spec, "name")

RECURSIVE NamedImportsLoop(_, _, _, _)
NamedImportsLoop(tr, t, kids, scope) ==
    IF kids = <<>> THEN t
    ELSE LET import_spec == Head(kids)
             local_name == LocalName(tr, import_spec)
             t1 == IF tr[import_spec].kind = "import_specifier"
                      /\ IsSome(local_name)
                   THEN Declare(tr, t, local_name[1], {"VARIABLE", "IMPORT"},
                                import_spec, scope)
                   ELSE t
         IN  NamedImportsLoop(tr, t1, Tail(kids), scope)

RECURSIVE ImportClauseLoop(_, _, _, _)
ImportClauseLoop(tr, t, kids, scope) ==
    IF kids = <<>> THEN t
    ELSE LET child == Head(kids)
             t1 == CASE tr[child].kind = "identifier" ->
                          Declare(tr, t, child, {"VARIABLE", "IMPORT"}, child,
                                  scope)
                    [] tr[child].kind = "named_imports" ->
                          NamedImportsLoop(tr, t, tr[child].children, scope)
                    [] tr[child].kind = "namespace_import" ->
                          BindNamespaceImport(tr, t, child, scope)
                    [] OTHER -> t
         IN  ImportClauseLoop(tr, t1, Tail(kids), scope)

bind_import_clause(tr, t, node, scope) ==
    ImportClauseLoop(tr, t, tr[node].children, scope)

RECURSIVE ImportStatementLoop(_, _, _, _)
ImportStatementLoop(tr, t, kids, scope) ==
    IF kids = <<>> THEN t
    ELSE LET child == Head(kids)
             t1 == CASE tr[child].kind = "import_clause" ->
                          bind_import_clause(tr, t, child, scope)
                    [] tr[child].kind = "namespace_import" ->
                          BindNamespaceImport(tr, t, child, scope)
                    [] OTHER -> t
         IN  ImportStatementLoop(tr, t1, Tail(kids), scope)

(***************************************************************************)
(* The walk.  An entry of the stack is a call still to be made:            *)
(*   visit       visit_node(node)                                          *)
(*   declarator  one turn of the loop of bind_variable_declarators         *)
(*   restore     the `self.current_scope = old_scope` a handler ends with  *)
(***************************************************************************)
Visit(n) == [op |-> "visit", node |-> n, flags |-> {}, scope |-> 0]

DeclaratorTurn(n, flags) ==
    [op |-> "declarator", node |-> n, flags |-> flags, scope |-> 0]

\* a handler that ends with `self.current_scope = 0`
RestoreToRoot(old_scope) ==
    [op |-> "restore", node |-> 0, flags |-> {}, scope |-> 0]

Restore(old_scope) ==
    [op |-> "restore", node |-> 0, flags |-> {}, scope |-> old_scope]

\* visit_children(node): visit_node on every child, in order
\* a walk that goes to no child
visit_no_children(tr, n) == <<>>

visit_children(tr, n) ==
    [i \in 1..Len(tr[n].children) |-> Visit(tr[n].children[i])]

\* the kinds visit_node has an arm for
ControlFlowKinds ==
    { "if_statement", "for_statement", "for_in_statement", "for_of_statement",
      "while_statement", "do_statement", "switch_statement" }

HandledKinds ==
    { "function_declaration", "class_declaration", "interface_declaration",
      "type_alias_declaration", "enum_declaration", "lexical_declaration",
      "variable_declaration", "import_statement", "arrow_function",
      "method_definition", "statement_block", "catch_clause", "identifier" }
    \cup ControlFlowKinds

\* the node visit_node is about to be called on
Node == Head(stack).node

Visiting(kinds) ==
    /\ pc = "binding"
    /\ stack # <<>>
    /\ Head(stack).op = "visit"
    /\ tree[Node].kind \in kinds

\* `flags |= SymbolFlags::EXPORTED` under an export_statement
ExportedFlag(n) ==
    IF parent_kind(tree, n) = "export_statement" THEN {"EXPORTED"} ELSE {}

ModifierFlag(n, kind, flag) ==
    IF has_child_kind(tree, n, kind) THEN {flag} ELSE {}

\* a declaration that leaves no symbol
DeclareNothing(t, n, flags) == t

\* the symbol of a declaration, created when the node has a name
DeclareNamed(t, n, flags) ==
    IF IsSome(child_by_field_name(tree, n, "name"))
    THEN Declare(tree, t, child_by_field_name(tree, n, "name")[1], flags, n,
                 current_scope)
    ELSE t

\* what the walk does not touch
Outside ==
    << tree, pc, doc_symbol_table, rebound, doc_version, table_version,
       observed >>

\* a handler that opens the scope `cs` (the result of create_scope), leaves
\* the table `t`, then walks `calls` and restores the scope
EnterScope(cs, t, calls) ==
    /\ symbol_table' = t
    /\ current_scope' = cs.id
    /\ stack' = calls \o <<Restore(current_scope)>> \o Tail(stack)

\* a handler that opens no scope
Continue(t, calls) ==
    /\ symbol_table' = t
    /\ current_scope' = current_scope
    /\ stack' = calls \o Tail(stack)

\* a function-like declaration with its symbol already in t1: the scope of
\* its body, its parameters, its body's children
BindFunctionBody(n, t1) ==
    LET params == child_by_field_name(tree, n, "parameters")
        body == child_by_field_name(tree, n, "body")
        cs == create_scope(t1, "Function", current_scope,
                           node_range(tree, body[1]))
    IN  IF IsSome(body)
        THEN EnterScope(cs,
                        IF IsSome(params)
                        THEN bind_parameters(tree, cs.table, params[1], cs.id)
                        ELSE cs.table,
                        visit_children(tree, body[1]))
        ELSE Continue(t1, <<>>)

bind_function_declaration ==
    /\ Visiting({"function_declaration"})
    /\ BindFunctionBody(Node,
           DeclareNamed(symbol_table, Node,
                        {"FUNCTION", "HOISTED"}
                            \cup ModifierFlag(Node, "async", "ASYNC")
                            \cup ExportedFlag(Node)))
    /\ visited' = Append(visited, Node)
    /\ UNCHANGED Outside

bind_method_definition ==
    /\ Visiting({"method_definition"})
    /\ BindFunctionBody(Node,
           DeclareNamed(symbol_table, Node,
                        {"METHOD"}
                            \cup ModifierFlag(Node, "static", "STATIC")
                            \cup ModifierFlag(Node, "async", "ASYNC")))
    /\ visited' = Append(visited, Node)
    /\ UNCHANGED Outside

\* the parameter of an arrow function: `parameters` (a lone identifier or
\* a parameter list), else `parameter`
ArrowParameters(t, n, scope) ==
    LET params == child_by_field_name(tree, n, "parameters")
        param == child_by_field_name(tree, n, "parameter")
    IN  IF IsSome(params)
        THEN IF tree[params[1]].kind = "identifier"
             THEN Declare(tree, t, params[1], {"PARAMETER"}, params[1], scope)
             ELSE bind_parameters(tree, t, params[1], scope)
        ELSE IF IsSome(param)
        THEN Declare(tree, t, param[1], {"PARAMETER"}, param[1], scope)
        ELSE t

bind_arrow_function ==
    /\ Visiting({"arrow_function"})
    /\ LET body == child_by_field_name(tree, Node, "body")
           cs == create_scope(symbol_table, "Function", current_scope,
                              node_range(tree, Node))
       IN  EnterScope(cs, ArrowParameters(cs.table, Node, cs.id),
                      IF IsSome(body) THEN <<Visit(body[1])>> ELSE <<>>)
    /\ visited' = Append(visited, Node)
    /\ UNCHANGED Outside

bind_class_declaration ==
    /\ Visiting({"class_declaration"})
    /\ LET body == child_by_field_name(tree, Node, "body")
           t1 == DeclareNamed(symbol_table, Node,
                              {"CLASS"} \cup ExportedFlag(Node))
           cs == create_scope(t1, "Class", current_scope,
                              node_range(tree, body[1]))
       IN  IF IsSome(body)
           THEN EnterScope(cs, cs.table, visit_children(tree, body[1]))
           ELSE Continue(t1, <<>>)
    /\ visited' = Append(visited, Node)
    /\ UNCHANGED Outside

bind_interface_declaration ==
    /\ Visiting({"interface_declaration"})
    /\ Continue(DeclareNamed(symbol_table, Node,
                             {"INTERFACE"} \cup ExportedFlag(Node)),
                visit_children(tree, Node))
    /\ visited' = Append(visited, Node)
    /\ UNCHANGED Outside

bind_type_alias_declaration ==
    /\ Visiting({"type_alias_declaration"})
    /\ Continue(DeclareNamed(symbol_table, Node,
                             {"TYPE_ALIAS"} \cup ExportedFlag(Node)),
                visit_children(tree, Node))
    /\ visited' = Append(visited, Node)
    /\ UNCHANGED Outside

bind_enum_declaration ==
    /\ Visiting({"enum_declaration"})
    /\ Continue(DeclareNamed(symbol_table, Node,
                             {"ENUM"} \cup ExportedFlag(Node)),
                visit_children(tree, Node))
    /\ visited' = Append(visited, Node)
    /\ UNCHANGED Outside

\* bind_variable_declarators: one turn of its loop per child
bind_variable_declarators(n, base_flags) ==
    [i \in 1..Len(tree[n].children) |->
        DeclaratorTurn(tree[n].children[i], base_flags)]

bind_lexical_declaration ==
    /\ Visiting({"lexical_declaration"})
    /\ Continue(symbol_table,
                bind_variable_declarators(Node,
                    IF has_child_kind(tree, Node, "const")
                    THEN {"VARIABLE", "CONST"}
                    ELSE {"VARIABLE", "LET"}))
    /\ visited' = Append(visited, Node)
    /\ UNCHANGED Outside

bind_variable_declaration ==
    /\ Visiting({"variable_declaration"})
    /\ Continue(symbol_table,
                bind_variable_declarators(Node, {"VARIABLE", "HOISTED"}))
    /\ visited' = Append(visited, Node)
    /\ UNCHANGED Outside

\* a turn of the loop of bind_variable_declarators: a child that is a
\* variable_declarator has its name bound, then its initializer visited
bind_variable_declarator ==
    /\ pc = "binding"
    /\ stack # <<>>
    /\ Head(stack).op = "declarator"
    /\ LET child == Node
           name_node == child_by_field_name(tree, child, "name")
           value == child_by_field_name(tree, child, "value")
       IN  IF tree[child].kind = "variable_declarator"
           THEN Continue(IF IsSome(name_node)
                         THEN bind_pattern(tree, symbol_table, name_node[1],
                                           Head(stack).flags, current_scope)
                         ELSE symbol_table,
                         IF IsSome(value) THEN <<Visit(value[1])>> ELSE <<>>)
           ELSE Continue(symbol_table, <<>>)
    /\ UNCHANGED visited
    /\ UNCHANGED Outside

bind_import_statement ==
    /\ Visiting({"import_statement"})
    /\ Continue(ImportStatementLoop(tree, symbol_table, tree[Node].children,
                                    current_scope),
                <<>>)
    /\ visited' = Append(visited, Node)
    /\ UNCHANGED Outside

\* a bind_block that takes no block for the body of a function
NoFunctionBodyParents == {}

\* the kinds of parent under which a statement_block opens no scope
FunctionBodyParents ==
    { "function_declaration", "function", "arrow_function",
      "method_definition" }

bind_block ==
    /\ Visiting({"statement_block"})
    /\ IF parent_kind(tree, Node) \in FunctionBodyParents
       THEN Continue(symbol_table, visit_children(tree, Node))
       ELSE LET cs == create_scope(symbol_table, "Block", current_scope,
                                   node_range(tree, Node))
            IN  EnterScope(cs, cs.table, visit_children(tree, Node))
    /\ visited' = Append(visited, Node)
    /\ UNCHANGED Outside

bind_control_flow ==
    /\ Visiting(ControlFlowKinds)
    /\ Continue(symbol_table, visit_children(tree, Node))
    /\ visited' = Append(visited, Node)
    /\ UNCHANGED Outside

bind_catch_clause ==
    /\ Visiting({"catch_clause"})
    /\ LET param == child_by_field_name(tree, Node, "parameter")
           cs == create_scope(symbol_table, "Catch", current_scope,
                              node_range(tree, Node))
       IN  EnterScope(cs,
                      IF IsSome(param)
                      THEN bind_pattern(tree, cs.table, param[1],
                                        {"PARAMETER"}, cs.id)
                      ELSE cs.table,
                      visit_children(tree, Node))
    /\ visited' = Append(visited, Node)
    /\ UNCHANGED Outside

\* the identifiers bind_identifier_reference returns from at once: the
\* names of declarations
NameOfParent ==
    { "variable_declarator", "function_declaration", "class_declaration",
      "interface_declaration", "type_alias_declaration", "enum_declaration",
      "method_definition" }

AlwaysDeclaration ==
    { "import_specifier", "shorthand_property_identifier_pattern",
      "required_parameter", "optional_parameter", "rest_parameter" }

IsDeclarationName(tr, n) ==
    /\ tr[n].parent # 0
    /\ \/ /\ parent_kind(tr, n) \in NameOfParent
          /\ child_by_field_name(tr, tr[n].parent, "name") = Some(n)
       \/ parent_kind(tr, n) \in AlwaysDeclaration

\* the table after bind_identifier_reference has resolved the node n
ResolveReference(tr, t, n, scope) ==
    LET hit == lookup(t, node_text(tr, n), scope)
    IN  IF IsSome(hit) THEN add_reference(t, hit[1], node_range(tr, n))
        ELSE t

bind_identifier_reference ==
    /\ Visiting({"identifier"})
    /\ lookup(symbol_table, node_text(tree, Node), current_scope) # Diverges
    /\ Continue(IF IsDeclarationName(tree, Node) THEN symbol_table
                ELSE ResolveReference(tree, symbol_table, Node,
                                      current_scope),
                <<>>)
    /\ visited' = Append(visited, Node)
    /\ UNCHANGED Outside

\* the default arm of visit_node
visit_other ==
    /\ pc = "binding"
    /\ stack # <<>>
    /\ Head(stack).op = "visit"
    /\ tree[Node].kind \notin HandledKinds
    /\ Continue(symbol_table, visit_children(tree, Node))
    /\ visited' = Append(visited, Node)
    /\ UNCHANGED Outside

\* `self.current_scope = old_scope`
restore_scope ==
    /\ pc = "binding"
    /\ stack # <<>>
    /\ Head(stack).op = "restore"
    /\ current_scope' = Head(stack).scope
    /\ stack' = Tail(stack)
    /\ UNCHANGED << symbol_table, visited >>
    /\ UNCHANGED Outside

(***************************************************************************)
(* bind_document: Binder::new(source), then bind(tree), whose return hands *)
(* the finished table to the document.  The first call is the one of       *)
(* Document::new, whose document DocumentManager::open then puts into the  *)
(* map; the second is the one of Document::apply_changes, which            *)
(* DocumentManager::change runs on the entry it holds with get_mut.        *)
(***************************************************************************)
\* a binder that goes on with the table of the walk before
BinderWithOldTable ==
    /\ symbol_table' = symbol_table
    /\ current_scope' = 0

BinderNew ==
    /\ symbol_table' = SymbolTableNew
    /\ current_scope' = 0

bind_document ==
    /\ pc = "idle"
    /\ ~rebound
    /\ BinderNew
    /\ stack' = <<Visit(RootNode)>>
    /\ visited' = <<>>
    /\ pc' = "binding"
    /\ rebound' = (doc_symbol_table # None)
    /\ doc_version' = IF doc_symbol_table # None THEN doc_version + 1
                      ELSE doc_version
    /\ UNCHANGED << tree, doc_symbol_table, table_version, observed >>

bind_return ==
    /\ pc = "binding"
    /\ stack = <<>>
    /\ doc_symbol_table' = Some(symbol_table)
    /\ pc' = "idle"
    /\ doc_version' = IF doc_version = 0 THEN 1 ELSE doc_version
    /\ table_version' = doc_version'
    /\ UNCHANGED << tree, symbol_table, current_scope, stack, visited,
                    rebound, observed >>

\* a map whose entries nobody ever holds
RefMutNever == FALSE

\* the entry of the document is held by the RefMut that
\* DocumentManager::change took with get_mut
RefMutHeld == pc = "binding" /\ rebound

\* DocumentManager::get and a handler reading the document through the Ref
get ==
    /\ doc_symbol_table # None
    /\ ~RefMutHeld
    /\ observed' = Some([ version |-> doc_version,
                          table_version |-> table_version,
                          table |-> doc_symbol_table[1] ])
    /\ UNCHANGED << tree, symbol_table, current_scope, stack, visited, pc,
                    doc_symbol_table, rebound, doc_version, table_version >>

Init ==
    /\ tree \in Trees
    /\ symbol_table = SymbolTableNew
    /\ current_scope = 0
    /\ stack = <<>>
    /\ visited = <<>>
    /\ pc = "idle"
    /\ doc_symbol_table = None
    /\ rebound = FALSE
    /\ doc_version = 0
    /\ table_version = 0
    /\ observed = None

Next ==
    \/ bind_document
    \/ bind_function_declaration
    \/ bind_class_declaration
    \/ bind_interface_declaration
    \/ bind_type_alias_declaration
    \/ bind_enum_declaration
    \/ bind_lexical_declaration
    \/ bind_variable_declaration
    \/ bind_variable_declarator
    \/ bind_import_statement
    \/ bind_arrow_function
    \/ bind_method_definition
    \/ bind_block
    \/ bind_control_flow
    \/ bind_catch_clause
    \/ bind_identifier_reference
    \/ visit_other
    \/ restore_scope
    \/ bind_return
    \/ get

Spec == Init /\ [][Next]_vars

(***************************************************************************)
(* The table's API called directly (the calls of the unit tests of         *)
(* symbol_table.rs), in any order and with any arguments: names, flags,    *)
(* scope ids and symbol ids that exist and that do not.                    *)
(***************************************************************************)
\* the number of calls that change the table
MaxCalls == 3

ApiNames == { "x", "y" }

ApiFlags ==
    { {"VARIABLE"}, {"CLASS"}, {"ENUM"}, {"INTERFACE"},
      {"TYPE_ALIAS", "EXPORTED"}, {"TYPE_PARAMETER"} }

ApiKinds == { "Function", "Block" }

ApiRange == Range(Position(0, 0), Position(10, 0))

\* the scope ids given to a call: the allocated ones, the next one to be
\* allocated and the one after it
ApiScopeIds == 0..(symbol_table.next_scope_id + 1)

\* the references of all symbols together
TotalReferences(t) ==
    LET RECURSIVE Sum(_)
        Sum(ids) == IF ids = {} THEN 0
                    ELSE LET i == CHOOSE i \in ids : TRUE
                         IN  Len(t.symbols[i].references) + Sum(ids \ {i})
    IN  Sum(DOMAIN t.symbols)

\* the calls made so far that changed the table
CallsMade(t) ==
    t.next_symbol_id + (t.next_scope_id - 1) + TotalReferences(t)

\* the symbol ids given to a call: the allocated ones and the next one
ApiSymbolIds == 0..symbol_table.next_symbol_id

TableOnly ==
    UNCHANGED << tree, current_scope, stack, visited, pc, doc_symbol_table,
                 rebound, doc_version, table_version, observed >>

TableCreateSymbol ==
    /\ CallsMade(symbol_table) < MaxCalls
    /\ \E name \in ApiNames, flags \in ApiFlags, scope_id \in ApiScopeIds :
          symbol_table' = create_symbol(symbol_table, name, flags, ApiRange,
                                        ApiRange, scope_id).table
    /\ TableOnly

TableCreateScope ==
    /\ CallsMade(symbol_table) < MaxCalls
    /\ \E kind \in ApiKinds, parent_id \in ApiScopeIds :
          symbol_table' = create_scope(symbol_table, kind, parent_id,
                                       ApiRange).table
    /\ TableOnly

TableAddReference ==
    /\ CallsMade(symbol_table) < MaxCalls
    /\ \E symbol_id \in ApiSymbolIds :
          symbol_table' = add_reference(symbol_table, symbol_id, ApiRange)
    /\ TableOnly

InitTable ==
    /\ tree = Arena(Program(<<>>))
    /\ symbol_table = SymbolTableNew
    /\ current_scope = 0
    /\ stack = <<>>
    /\ visited = <<>>
    /\ pc = "idle"
    /\ doc_symbol_table = None
    /\ rebound = FALSE
    /\ doc_version = 0
    /\ table_version = 0
    /\ observed = None

NextTable ==
    \/ TableCreateSymbol
    \/ TableCreateScope
    \/ TableAddReference

SpecTable == InitTable /\ [][NextTable]_vars

(***************************************************************************)
(* The table under create_scope calls with ranges of the caller's choice:  *)
(* what scope_at_position is asked about.                                  *)
(***************************************************************************)
\* ranges on line 0: one that holds the others, two apart from each other,
\* one inside the first of those
ApiScopeRanges ==
    { Range(Position(0, 0), Position(0, 8)),
      Range(Position(0, 1), Position(0, 3)),
      Range(Position(0, 2), Position(0, 2)),
      Range(Position(0, 5), Position(0, 7)) }

TableCreateScopeAt ==
    /\ symbol_table.next_scope_id - 1 < MaxCalls
    /\ \E parent_id \in ApiScopeIds, range \in ApiScopeRanges :
          symbol_table' = create_scope(symbol_table, "Block", parent_id,
                                       range).table
    /\ TableOnly

NextRanges == TableCreateScopeAt

SpecRanges == InitTable /\ [][NextRanges]_vars

(***************************************************************************)
(* The scope tree as the parent links draw it.                             *)
(***************************************************************************)
\* the scopes on the parent chain of s, s included, as far as the chain
\* goes (it ends at a scope without parent, at an unknown id, or where it
\* comes back to a scope it has been at)
RECURSIVE ChainFrom(_, _, _)
ChainFrom(t, s, seen) ==
    IF s \notin DOMAIN t.scopes \/ s \in seen THEN seen
    ELSE IF IsSome(t.scopes[s].parent)
         THEN ChainFrom(t, t.scopes[s].parent[1], seen \cup {s})
         ELSE seen \cup {s}

Chain(t, s) == ChainFrom(t, s, {})

\* d is a descendant of s: another scope whose parent chain passes s
IsDescendant(t, d, s) == d # s /\ s \in Chain(t, d)

\* the scopes on the parent chain of d below s, d included (s is on it)
RECURSIVE BelowFrom(_, _, _, _)
BelowFrom(t, d, s, seen) ==
    IF d = s \/ d \in seen \/ d \notin DOMAIN t.scopes THEN seen
    ELSE IF IsSome(t.scopes[d].parent)
         THEN BelowFrom(t, t.scopes[d].parent[1], s, seen \cup {d})
         ELSE seen \cup {d}

Below(t, d, s) == BelowFrom(t, d, s, {})

\* the step is one call of create_symbol on the table being built
CreatesSymbol ==
    symbol_table'.next_symbol_id = symbol_table.next_symbol_id + 1

\* the symbol that call created
Created == symbol_table'.symbols[symbol_table.next_symbol_id]

IsValueSymbol(symbol) == ~intersects(symbol.flags, TypeNamespaceFlags)

(***************************************************************************)
(* C1 as stated: right after create_symbol has created a value symbol      *)
(* named n in an existing scope S, lookup(n, S) returns it and so does     *)
(* lookup(n, D) for every descendant D of S.                               *)
(***************************************************************************)
C1_AsStated ==
    [][ CreatesSymbol /\ IsValueSymbol(Created)
        /\ Created.scope_id \in DOMAIN symbol_table'.scopes
        => \A d \in DOMAIN symbol_table'.scopes :
              d = Created.scope_id
                  \/ IsDescendant(symbol_table', d, Created.scope_id)
              => lookup(symbol_table', Created.name, d)
                     = Some(Created.id) ]_vars

(***************************************************************************)
(* C1, amended: right after create_symbol has created a value symbol named *)
(* n in an existing scope S, lookup(n, S) returns it, and so does          *)
(* lookup(n, D) for every descendant D of S with no scope on the parent    *)
(* chain from D up to, and not including, S that has n in its value        *)
(* namespace.                                                              *)
(***************************************************************************)
C1_UpwardVisibility ==
    [][ CreatesSymbol /\ IsValueSymbol(Created)
        /\ Created.scope_id \in DOMAIN symbol_table'.scopes
        => \A d \in DOMAIN symbol_table'.scopes :
              /\ d = Created.scope_id
                    \/ IsDescendant(symbol_table', d, Created.scope_id)
              /\ \A b \in Below(symbol_table', d, Created.scope_id) :
                    Created.name \notin DOMAIN symbol_table'.scopes[b].symbols
              => lookup(symbol_table', Created.name, d)
                     = Some(Created.id) ]_vars

\* a value symbol is what lookup returns from a scope at least two levels
\* below the scope it was created in
C1_Witness ==
    \E i \in DOMAIN symbol_table.symbols :
       LET sym == symbol_table.symbols[i] IN
       /\ IsValueSymbol(sym)
       /\ sym.scope_id \in DOMAIN symbol_table.scopes
       /\ \E d \in DOMAIN symbol_table.scopes :
             /\ IsDescendant(symbol_table, d, sym.scope_id)
             /\ symbol_table.scopes[d].parent # Some(sym.scope_id)
             /\ lookup(symbol_table, sym.name, d) = Some(i)

\* the parent chain of s in order, s first, as far as it goes
RECURSIVE ChainSeqFrom(_, _, _)
ChainSeqFrom(t, s, acc) ==
    IF s \notin DOMAIN t.scopes \/ (\E i \in 1..Len(acc) : acc[i] = s) THEN acc
    ELSE IF IsSome(t.scopes[s].parent)
         THEN ChainSeqFrom(t, t.scopes[s].parent[1], Append(acc, s))
         ELSE Append(acc, s)

ChainSeq(t, s) == ChainSeqFrom(t, s, <<>>)

Namespace(scope, types) == IF types THEN scope.type_symbols ELSE scope.symbols

\* what the nearest scope of the chain that declares name records under it
Nearest(t, name, s, types) ==
    LET chain == ChainSeq(t, s)
        hits  == { i \in 1..Len(chain) :
                     name \in DOMAIN Namespace(t.scopes[chain[i]], types) }
    IN  IF hits = {} THEN None
        ELSE LET first == CHOOSE i \in hits : \A j \in hits : i <= j
             IN  Some(Namespace(t.scopes[chain[first]], types)[name])

(***************************************************************************)
(* C2 as stated: lookup(name, s) returns what the nearest scope on the     *)
(* chain s, parent(s), ... records under name in its value namespace, and  *)
(* none if no scope on the chain declares it; lookup_type does the same    *)
(* with the type namespace.  So a same-named declaration in a child scope  *)
(* is what lookup returns from the child, and the parent's from the parent.*)
(***************************************************************************)
C2_AsStated ==
    \A s \in DOMAIN symbol_table.scopes : \A name \in ApiNames :
       /\ lookup(symbol_table, name, s)
              = Nearest(symbol_table, name, s, FALSE)
       /\ lookup_type(symbol_table, name, s)
              = Nearest(symbol_table, name, s, TRUE)

\* the walk has returned and the document holds its table
Bound == pc = "idle" /\ doc_symbol_table # None

\* the nodes the walk has handed to bind_identifier_reference as uses, not
\* as names of declarations
ReferenceSites ==
    { n \in DOMAIN tree :
        /\ tree[n].kind = "identifier"
        /\ \E i \in 1..Len(visited) : visited[i] = n
        /\ ~IsDeclarationName(tree, n) }

\* the sites whose range the symbol X of table t has on record
SitesResolvedTo(t, X) ==
    { n \in ReferenceSites :
        \E i \in 1..Len(t.symbols[X].references) :
           t.symbols[X].references[i] = node_range(tree, n) }

Count(seq, v) == Cardinality({ i \in 1..Len(seq) : seq[i] = v })

(***************************************************************************)
(* C3 as stated: after binding any tree, find_references(X) contains the   *)
(* range of every reference site resolved to X exactly once, is X's        *)
(* name_range followed by the recorded references in recording order, and  *)
(* is empty for an unknown symbol id.                                      *)
(***************************************************************************)
C3_AsStated ==
    Bound =>
      LET t == doc_symbol_table[1] IN
      /\ \A X \in DOMAIN t.symbols :
            /\ find_references(t, X)
                  = <<t.symbols[X].name_range>> \o t.symbols[X].references
            /\ \A n \in SitesResolvedTo(t, X) :
                  Count(find_references(t, X), node_range(tree, n)) = 1
      /\ find_references(t, t.next_symbol_id) = <<>>

\* the tables to look at in a state: the one being built and, once a walk
\* has returned, the one the document holds
Tables ==
    {symbol_table}
    \cup (IF doc_symbol_table # None THEN {doc_symbol_table[1]} ELSE {})

(***************************************************************************)
(* C4: in every table state reached while the binder walks a tree, and in  *)
(* the returned table, scope 0 is the only scope without a parent, the     *)
(* parent links from any scope lead to scope 0, and a scope C is listed in *)
(* the children of P exactly when C's recorded parent is P, and then once. *)
(***************************************************************************)
C4_ScopeTree ==
    \A t \in Tables :
       /\ \A s \in DOMAIN t.scopes : (t.scopes[s].parent = None) <=> (s = 0)
       /\ \A s \in DOMAIN t.scopes :
             LET chain == ChainSeq(t, s) IN chain[Len(chain)] = 0
       /\ \A p \in DOMAIN t.scopes : \A c \in DOMAIN t.scopes :
             Count(t.scopes[p].children, c)
                 = IF t.scopes[c].parent = Some(p) THEN 1 ELSE 0
       /\ \A p \in DOMAIN t.scopes :
             \A i \in 1..Len(t.scopes[p].children) :
                t.scopes[p].children[i] \in DOMAIN t.scopes

\* the walk is under way in a table where scope 0 has two children and one
\* of them a child of its own
C4_Witness ==
    /\ pc = "binding"
    /\ stack # <<>>
    /\ Len(symbol_table.scopes[0].children) >= 2
    /\ \E s \in DOMAIN symbol_table.scopes :
          /\ IsSome(symbol_table.scopes[s].parent)
          /\ symbol_table.scopes[s].parent # Some(0)

\* the names the symbols of a table go by
NamesOf(t) == { t.symbols[i].name : i \in DOMAIN t.symbols }

\* if (true) { const x = 1; }
IfTrueConstX ==
    Arena(Program(<<If(Leaf("true", "true"),
                       <<Lexical("const", Id("x"), Initializer(Num))>>)>>))

(***************************************************************************)
(* C5: block-scoped declarations do not leak.  A symbol created in scope S *)
(* is never what lookup or lookup_type returns when started from a scope   *)
(* that is neither S nor a descendant of S; and binding                    *)
(* `if (true) { const x = 1; }` creates exactly one scope besides scope 0, *)
(* of kind Block, with lookup("x", 0) returning none.                      *)
(***************************************************************************)
C5_NoLeak ==
    /\ \A t \in Tables : \A X \in DOMAIN t.symbols :
          \A s \in DOMAIN t.scopes : \A name \in NamesOf(t) :
             lookup(t, name, s) = Some(X) \/ lookup_type(t, name, s) = Some(X)
             => s = t.symbols[X].scope_id
                   \/ IsDescendant(t, s, t.symbols[X].scope_id)
    /\ Bound /\ tree = IfTrueConstX
       => LET t == doc_symbol_table[1] IN
          /\ DOMAIN t.scopes = {0, 1}
          /\ t.scopes[1].kind = "Block"
          /\ lookup(t, "x", 0) = None

\* `if (true) { const x = 1; }` is bound, its x is found from the block
C5_Witness ==
    /\ Bound
    /\ tree = IfTrueConstX
    /\ lookup(doc_symbol_table[1], "x", 1) = Some(0)
    /\ doc_symbol_table[1].symbols[0].scope_id = 1

(***************************************************************************)
(* The walk as a run: once bind has been called, it runs without           *)
(* suspension to its return.                                               *)
(***************************************************************************)
BindStep == pc = "binding" /\ Next

SpecLive == Spec /\ WF_vars(BindStep)

VisitedNodes == { visited[i] : i \in 1..Len(visited) }

\* the declarations that take their symbol from a `name` field
NamedDeclarationKinds ==
    { "function_declaration", "class_declaration", "interface_declaration",
      "type_alias_declaration", "enum_declaration", "method_definition" }

DeclarationFlags ==
    { "FUNCTION", "CLASS", "INTERFACE", "TYPE_ALIAS", "ENUM", "METHOD" }

BodyScopeKind(kind) ==
    CASE kind \in {"function_declaration", "method_definition"} -> "Function"
      [] kind = "class_declaration" -> "Class"
      [] OTHER -> "none"

IsNameless(n) ==
    /\ tree[n].kind \in NamedDeclarationKinds
    /\ ~IsSome(child_by_field_name(tree, n, "name"))

\* the children the handler of the declaration n goes on to: those of its
\* body where the body has a scope, its own otherwise
WalkedChildren(n) ==
    LET body == child_by_field_name(tree, n, "body")
        kids == IF BodyScopeKind(tree[n].kind) = "none" THEN tree[n].children
                ELSE IF IsSome(body) THEN tree[body[1]].children
                ELSE <<>>
    IN  { kids[i] : i \in 1..Len(kids) }

\* the step that handles a declaration without a name creates no symbol for
\* it, and creates the scope of its body, where it has a body with a scope
NamelessStep ==
    pc = "binding" /\ stack # <<>> /\ Head(stack).op = "visit"
    /\ IsNameless(Node)
    => LET body == child_by_field_name(tree, Node, "body")
           new == symbol_table.next_scope_id
       IN  /\ \A X \in DOMAIN symbol_table'.symbols :
                 X \notin DOMAIN symbol_table.symbols
                 => ~intersects(symbol_table'.symbols[X].flags,
                                DeclarationFlags)
           /\ IF BodyScopeKind(tree[Node].kind) # "none" /\ IsSome(body)
              THEN /\ DOMAIN symbol_table'.scopes
                         = DOMAIN symbol_table.scopes \cup {new}
                   /\ symbol_table'.scopes[new].kind
                         = BodyScopeKind(tree[Node].kind)
                   /\ symbol_table'.scopes[new].range
                         = node_range(tree, body[1])
                   /\ symbol_table'.scopes[new].parent = Some(current_scope)
                   /\ current_scope' = new
              ELSE DOMAIN symbol_table'.scopes = DOMAIN symbol_table.scopes

\* when the walk has returned, the children of every node of an unrecognized
\* kind and of every declaration without a name have been visited
Walked ==
    Bound =>
      \A n \in VisitedNodes :
         /\ tree[n].kind \notin HandledKinds
            => \A i \in 1..Len(tree[n].children) :
                  tree[n].children[i] \in VisitedNodes
         /\ IsNameless(n) => WalkedChildren(n) \subseteq VisitedNodes

(***************************************************************************)
(* C6: the binder never fails.  For every tree, those with unrecognized    *)
(* node kinds and with declarations lacking a name included, bind          *)
(* terminates and returns a table; a function, class, interface, type      *)
(* alias, enum or method declaration without a name creates no symbol for  *)
(* itself, but the scope of its body is still created and its children are *)
(* still walked; unrecognized node kinds have all their children visited.  *)
(***************************************************************************)
C6_NeverFails ==
    /\ (pc = "binding") ~> Bound
    /\ [][NamelessStep]_vars
    /\ []Walked

\* a class without a name holding a method without a name has been bound:
\* neither has a symbol, both have the scope of their body, and the
\* statement in the method's body has been visited
C6_Witness ==
    /\ Bound
    /\ \E c \in VisitedNodes : \E m \in VisitedNodes :
          /\ tree[c].kind = "class_declaration" /\ IsNameless(c)
          /\ tree[m].kind = "method_definition" /\ IsNameless(m)
          /\ WalkedChildren(m) # {}
          /\ WalkedChildren(m) \subseteq VisitedNodes
          /\ \E s \in DOMAIN doc_symbol_table[1].scopes :
                /\ doc_symbol_table[1].scopes[s].kind = "Function"
                /\ doc_symbol_table[1].scopes[s].range
                      = node_range(tree,
                                   child_by_field_name(tree, m, "body")[1])
          /\ \A X \in DOMAIN doc_symbol_table[1].symbols :
                ~intersects(doc_symbol_table[1].symbols[X].flags,
                            DeclarationFlags)

\* what of a table the ids do not matter to: the scopes by kind, range,
\* parent and children in order, the symbols by name, flags, ranges, owning
\* scope and references in order
Structure(t) ==
    [ scopes |-> [ s \in DOMAIN t.scopes |->
                     << t.scopes[s].kind, t.scopes[s].range,
                        t.scopes[s].parent, t.scopes[s].children >> ],
      symbols |-> [ X \in DOMAIN t.symbols |->
                      << t.symbols[X].name, t.symbols[X].flags,
                         t.symbols[X].declaration_range,
                         t.symbols[X].name_range, t.symbols[X].scope_id,
                         t.symbols[X].references >> ] ]

\* the second walk over the tree has come to its end, the document still
\* holds the table of the first
SecondWalkDone == pc = "binding" /\ stack = <<>> /\ rebound

ScopeCreatingKinds ==
    { "function_declaration", "arrow_function", "method_definition",
      "class_body", "statement_block", "catch_clause" }

NoScopeCreatingNode ==
    \A n \in DOMAIN tree : tree[n].kind \notin ScopeCreatingKinds

OnlyComments ==
    \A n \in DOMAIN tree : tree[n].kind \in {"program", "comment"}

(***************************************************************************)
(* C8: binding a tree with no scope-creating node (no function-like, class *)
(* body, standalone block or catch clause) yields a table whose only scope *)
(* is scope 0, of kind Global and without parent; binding an empty source, *)
(* or one of comments only, yields zero symbols as well.                   *)
(***************************************************************************)
C8_FlatProgram ==
    Bound =>
      LET t == doc_symbol_table[1] IN
      /\ NoScopeCreatingNode
         => /\ DOMAIN t.scopes = {0}
            /\ t.scopes[0].kind = "Global"
            /\ t.scopes[0].parent = None
      /\ OnlyComments
         => /\ DOMAIN t.scopes = {0}
            /\ DOMAIN t.symbols = {}

\* a program of two or more statements, none opening a scope, is bound and
\* has symbols
C8_Witness ==
    /\ Bound
    /\ NoScopeCreatingNode
    /\ Len(tree[RootNode].children) >= 2
    /\ DOMAIN doc_symbol_table[1].symbols # {}

(***************************************************************************)
(* C9: create_symbol puts the new symbol into the type namespace of its    *)
(* scope if and only if its flags intersect {INTERFACE, TYPE_ALIAS,        *)
(* TYPE_PARAMETER}, and into the value namespace otherwise; the namespace  *)
(* it does not go to is left as it was, so an interface and a variable of  *)
(* one name in one scope do not overwrite each other; class and enum       *)
(* symbols are found by lookup and never by lookup_type.                   *)
(***************************************************************************)
C9_Routing ==
    [][ CreatesSymbol /\ Created.scope_id \in DOMAIN symbol_table.scopes
        => LET before == symbol_table.scopes[Created.scope_id]
               after  == symbol_table'.scopes[Created.scope_id]
               entry  == (Created.name :> Created.id)
           IN  /\ IF Created.flags \cap {"INTERFACE", "TYPE_ALIAS",
                                         "TYPE_PARAMETER"} # {}
                  THEN /\ after.type_symbols = entry @@ before.type_symbols
                       /\ after.symbols = before.symbols
                  ELSE /\ after.symbols = entry @@ before.symbols
                       /\ after.type_symbols = before.type_symbols
               /\ Created.flags \cap {"CLASS", "ENUM"} # {}
                  => /\ lookup(symbol_table', Created.name, Created.scope_id)
                           = Some(Created.id)
                     /\ \A s \in DOMAIN symbol_table'.scopes :
                           \A name \in ApiNames :
                              lookup_type(symbol_table', name, s)
                                  # Some(Created.id) ]_vars

\* one scope holds an interface and a class of one name, each found by its
\* own lookup
C9_Witness ==
    \E s \in DOMAIN symbol_table.scopes : \E name \in ApiNames :
       LET v  == lookup(symbol_table, name, s)
           ty == lookup_type(symbol_table, name, s)
       IN  /\ name \in DOMAIN symbol_table.scopes[s].symbols
           /\ name \in DOMAIN symbol_table.scopes[s].type_symbols
           /\ IsSome(v) /\ IsSome(ty) /\ v # Diverges /\ ty # Diverges
           /\ v # ty
           /\ "CLASS" \in symbol_table.symbols[v[1]].flags
           /\ "INTERFACE" \in symbol_table.symbols[ty[1]].flags

\* the import specifiers with a name among the named imports of the import
\* statement n
SpecifiersOf(n) ==
    { sp \in DOMAIN tree :
        /\ tree[sp].kind = "import_specifier"
        /\ IsSome(child_by_field_name(tree, sp, "name"))
        /\ tree[sp].parent # 0
        /\ parent_kind(tree, sp) = "named_imports"
        /\ parent_kind(tree, tree[sp].parent) = "import_clause"
        /\ tree[tree[tree[sp].parent].parent].parent = n }

HasAlias(sp) == IsSome(child_by_field_name(tree, sp, "alias"))

\* the node a specifier takes its local name from
LocalNode(sp) ==
    IF HasAlias(sp) THEN child_by_field_name(tree, sp, "alias")[1]
    ELSE child_by_field_name(tree, sp, "name")[1]

\* import { foo, bar as baz } from 'm';
ImportFooBarAsBaz ==
    Arena(Program(<<Import(<<NamedImports(
        <<Specifier(Named(Id("foo")), <<>>), Tk(","),
          Specifier(Named(Id("bar")), Alias("baz"))>>)>>)>>))

(***************************************************************************)
(* C10: the step that binds an import statement creates, for each import   *)
(* specifier of its named imports, exactly one symbol, in the current      *)
(* scope, under the specifier's local name (the alias when there is one,   *)
(* the imported name otherwise) and with flags exactly VARIABLE|IMPORT;    *)
(* the imported name of an aliased specifier is not bound.  So             *)
(* `import { foo, bar as baz } from 'm'` yields the symbols foo and baz    *)
(* and no symbol bar.                                                      *)
(***************************************************************************)
C10_NamedImports ==
    /\ [][ pc = "binding" /\ stack # <<>> /\ Head(stack).op = "visit"
           /\ tree[Node].kind = "import_statement"
           => LET created == DOMAIN symbol_table'.symbols
                                \ DOMAIN symbol_table.symbols
              IN  \A sp \in SpecifiersOf(Node) :
                     LET mine == { X \in created :
                                     symbol_table'.symbols[X].declaration_range
                                         = node_range(tree, sp) }
                     IN  /\ Cardinality(mine) = 1
                         /\ \A X \in mine :
                               LET sym == symbol_table'.symbols[X] IN
                               /\ sym.name = node_text(tree, LocalNode(sp))
                               /\ sym.name_range
                                     = node_range(tree, LocalNode(sp))
                               /\ sym.flags = {"VARIABLE", "IMPORT"}
                               /\ sym.scope_id = current_scope
                               /\ lookup_local(
                                     symbol_table'.scopes[current_scope],
                                     sym.name) # None ]_vars
    /\ [](Bound /\ tree = ImportFooBarAsBaz
          => LET t == doc_symbol_table[1] IN
             /\ NamesOf(t) = {"foo", "baz"}
             /\ Cardinality(DOMAIN t.symbols) = 2
             /\ \A X \in DOMAIN t.symbols :
                   t.symbols[X].flags = {"VARIABLE", "IMPORT"})

\* `import { foo, bar as baz } from 'm'` is bound: baz is found from scope
\* 0, bar is not
C10_Witness ==
    /\ Bound
    /\ tree = ImportFooBarAsBaz
    /\ IsSome(lookup(doc_symbol_table[1], "baz", 0))
    /\ lookup(doc_symbol_table[1], "bar", 0) = None

(***************************************************************************)
(* Binding patterns as the language reads them.                            *)
(***************************************************************************)
\* a child that holds a default value or a property key, not a binding
IsValuePosition(tr, n, c) ==
    \/ /\ tr[n].kind \in {"assignment_pattern", "object_assignment_pattern"}
       /\ child_by_field_name(tr, n, "right") = Some(c)
    \/ /\ tr[n].kind = "pair_pattern"
       /\ child_by_field_name(tr, n, "key") = Some(c)

\* the identifiers a pattern declares: its leaves in binding position
RECURSIVE PatternLeaves(_, _)
PatternLeaves(tr, n) ==
    IF tr[n].kind \in {"identifier", "shorthand_property_identifier_pattern"}
    THEN {n}
    ELSE UNION { PatternLeaves(tr, tr[n].children[i]) :
                   i \in { j \in 1..Len(tr[n].children) :
                             ~IsValuePosition(tr, n, tr[n].children[j]) } }

\* the symbols a step has added to the table
NewSymbols == DOMAIN symbol_table'.symbols \ DOMAIN symbol_table.symbols

\* the walk is at a declarator of a const or let declaration
AtLexicalDeclarator ==
    /\ pc = "binding" /\ stack # <<>> /\ Head(stack).op = "declarator"
    /\ tree[Node].kind = "variable_declarator"
    /\ parent_kind(tree, Node) = "lexical_declaration"
    /\ IsSome(child_by_field_name(tree, Node, "name"))

LexicalFlags(declaration) ==
    IF \E i \in 1..Len(tree[declaration].children) :
          tree[tree[declaration].children[i]].kind = "const"
    THEN {"VARIABLE", "CONST"}
    ELSE {"VARIABLE", "LET"}

\* const x = 1;
ConstX == Arena(Program(<<Lexical("const", Id("x"), Initializer(Num))>>))

(***************************************************************************)
(* C11 as stated: a const declaration binds each identifier it declares as *)
(* exactly one symbol in the current scope with flags exactly              *)
(* VARIABLE|CONST, a let declaration with flags exactly VARIABLE|LET; a    *)
(* symbol never referenced has no references; so `const x = 1;` yields one *)
(* symbol x in scope 0 with VARIABLE|CONST and zero references.            *)
(***************************************************************************)
C11_AsStated ==
    /\ [][ AtLexicalDeclarator
           => \A l \in PatternLeaves(tree,
                         child_by_field_name(tree, Node, "name")[1]) :
                 LET mine == { X \in NewSymbols :
                                 symbol_table'.symbols[X].name_range
                                     = node_range(tree, l) }
                 IN  /\ Cardinality(mine) = 1
                     /\ \A X \in mine :
                           /\ symbol_table'.symbols[X].name
                                 = node_text(tree, l)
                           /\ symbol_table'.symbols[X].flags
                                 = LexicalFlags(tree[Node].parent)
                           /\ symbol_table'.symbols[X].scope_id
                                 = current_scope ]_vars
    /\ [](Bound
          => LET t == doc_symbol_table[1] IN
             /\ \A X \in DOMAIN t.symbols :
                   SitesResolvedTo(t, X) = {}
                   => t.symbols[X].references = <<>>
             /\ tree = ConstX
                => /\ DOMAIN t.symbols = {0}
                   /\ t.symbols[0].name = "x"
                   /\ t.symbols[0].scope_id = 0
                   /\ t.symbols[0].flags = {"VARIABLE", "CONST"}
                   /\ t.symbols[0].references = <<>>)

(***************************************************************************)
(* C12: when a change of the document triggers a rebind, the new table     *)
(* replaces the old one atomically for readers.  A handler that obtains    *)
(* the document through DocumentManager::get never reads a table that is   *)
(* still being populated, nor the content and tree of one version together *)
(* with the table bound from another: the document's table changes only    *)
(* when a walk has come to its end, to the table of that walk, and what a  *)
(* handler reads is read outside any walk and is of one version.           *)
(***************************************************************************)
C12_AtomicPublish ==
    /\ [](observed # None
          => observed[1].version = observed[1].table_version)
    /\ [][ doc_symbol_table' # doc_symbol_table
           => /\ pc = "binding" /\ stack = <<>>
              /\ doc_symbol_table' = Some(symbol_table) ]_vars
    /\ [][ observed' # observed
           => /\ pc = "idle"
              /\ observed'[1].table = doc_symbol_table[1]
              /\ observed'[1].version = doc_version ]_vars

\* a handler has read the document after a change was applied to it
C12_Witness ==
    /\ observed # None
    /\ observed[1].version = 2
    /\ observed[1].table_version = 2
    /\ DOMAIN observed[1].table.symbols # {}

\* the step is one call of create_scope on the table being built
CreatesScope == symbol_table'.next_scope_id = symbol_table.next_scope_id + 1

\* what of a symbol and of a scope is fixed when it is created
SymbolIdentity(symbol) ==
    << symbol.id, symbol.name, symbol.flags, symbol.declaration_range,
       symbol.name_range, symbol.scope_id >>

ScopeIdentity(scope) == << scope.id, scope.kind, scope.parent, scope.range >>

(***************************************************************************)
(* C13: ids are never reused within one table.  Every create_symbol call   *)
(* returns an id no earlier call returned, every create_scope call an id   *)
(* other than 0 and than every earlier scope id; no operation removes or   *)
(* replaces a symbol or scope record; so there are as many symbols as      *)
(* create_symbol calls and one more scope than create_scope calls.         *)
(***************************************************************************)
C13_IdsNeverReused ==
    /\ [](/\ DOMAIN symbol_table.symbols = 0..(symbol_table.next_symbol_id - 1)
          /\ DOMAIN symbol_table.scopes = 0..(symbol_table.next_scope_id - 1)
          /\ \A X \in DOMAIN symbol_table.symbols :
                symbol_table.symbols[X].id = X
          /\ \A s \in DOMAIN symbol_table.scopes :
                symbol_table.scopes[s].id = s)
    /\ [][ /\ \A X \in DOMAIN symbol_table.symbols :
                /\ X \in DOMAIN symbol_table'.symbols
                /\ SymbolIdentity(symbol_table'.symbols[X])
                      = SymbolIdentity(symbol_table.symbols[X])
           /\ \A s \in DOMAIN symbol_table.scopes :
                /\ s \in DOMAIN symbol_table'.scopes
                /\ ScopeIdentity(symbol_table'.scopes[s])
                      = ScopeIdentity(symbol_table.scopes[s])
           /\ IF CreatesSymbol
              THEN \E X \in DOMAIN symbol_table'.symbols :
                      /\ X \notin DOMAIN symbol_table.symbols
                      /\ DOMAIN symbol_table'.symbols
                            = DOMAIN symbol_table.symbols \cup {X}
              ELSE DOMAIN symbol_table'.symbols = DOMAIN symbol_table.symbols
           /\ IF CreatesScope
              THEN \E s \in DOMAIN symbol_table'.scopes :
                      /\ s # 0
                      /\ s \notin DOMAIN symbol_table.scopes
                      /\ DOMAIN symbol_table'.scopes
                            = DOMAIN symbol_table.scopes \cup {s}
              ELSE DOMAIN symbol_table'.scopes = DOMAIN symbol_table.scopes
         ]_vars

\* two create_symbol calls and a create_scope call have been made
C13_Witness ==
    /\ Cardinality(DOMAIN symbol_table.symbols) = 2
    /\ Cardinality(DOMAIN symbol_table.scopes) = 2
    /\ symbol_table.symbols[0].name = symbol_table.symbols[1].name
    /\ symbol_table.symbols[0].scope_id = symbol_table.symbols[1].scope_id

(***************************************************************************)
(* C14: create_symbol called with a scope id that does not exist still     *)
(* allocates a fresh id and stores the symbol (get_symbol and all_symbols  *)
(* return it) but inserts it into no namespace: the value and type         *)
(* namespaces of every existing scope are unchanged and no lookup from any *)
(* scope returns it.                                                       *)
(***************************************************************************)
C14_UnknownScope ==
    [][ CreatesSymbol
        /\ Created.scope_id \notin DOMAIN symbol_table.scopes
        => /\ Created.id = symbol_table.next_symbol_id
           /\ Created.id \notin DOMAIN symbol_table.symbols
           /\ get_symbol(symbol_table', Created.id) = Some(Created)
           /\ Created.references = <<>>
           /\ symbol_table'.scopes = symbol_table.scopes
           /\ \A s \in DOMAIN symbol_table'.scopes : \A name \in ApiNames :
                 /\ lookup(symbol_table', name, s) # Some(Created.id)
                 /\ lookup_type(symbol_table', name, s) # Some(Created.id)
      ]_vars

\* a symbol was created in a scope that does not exist, and lookup of its
\* name from scope 0 finds another symbol
C14_Witness ==
    \E X \in DOMAIN symbol_table.symbols :
       /\ symbol_table.symbols[X].scope_id \notin DOMAIN symbol_table.scopes
       /\ IsSome(lookup(symbol_table, symbol_table.symbols[X].name, 0))
       /\ lookup(symbol_table, symbol_table.symbols[X].name, 0) # Some(X)

\* n is the node a or lies below it
RECURSIVE IsUnder(_, _, _)
IsUnder(tr, n, a) ==
    IF n = a THEN TRUE
    ELSE IF tr[n].parent = 0 THEN FALSE
    ELSE IsUnder(tr, tr[n].parent, a)

FunctionLikeKinds ==
    { "function_declaration", "method_definition", "arrow_function" }

\* the walk is at a function-like declaration that has a body
AtFunctionLike ==
    /\ pc = "binding" /\ stack # <<>> /\ Head(stack).op = "visit"
    /\ tree[Node].kind \in FunctionLikeKinds
    /\ IsSome(child_by_field_name(tree, Node, "body"))

\* the identifiers that name the parameters of the function-like node n:
\* the lone parameter of an arrow function, and of each entry of a
\* parameter list the pattern, where it is an identifier
ParameterNames(n) ==
    LET params == child_by_field_name(tree, n, "parameters")
        param == child_by_field_name(tree, n, "parameter")
        entries == IF IsSome(params) THEN tree[params[1]].children ELSE <<>>
    IN  (IF IsSome(param) THEN {param[1]} ELSE {})
        \cup { p \in DOMAIN tree :
                 /\ tree[p].kind = "identifier"
                 /\ \E i \in 1..Len(entries) :
                       /\ tree[entries[i]].kind
                             \in { "required_parameter",
                                   "optional_parameter", "rest_parameter" }
                       /\ child_by_field_name(tree, entries[i], "pattern")
                             = Some(p) }

\* what the value namespace of scope s holds under a name is the symbol
\* created last among the value symbols of that name and scope
LastWriteWins(t) ==
    \A s \in DOMAIN t.scopes : \A name \in DOMAIN t.scopes[s].symbols :
       LET same == { X \in DOMAIN t.symbols :
                       /\ t.symbols[X].name = name
                       /\ t.symbols[X].scope_id = s
                       /\ IsValueSymbol(t.symbols[X]) }
       IN  /\ t.scopes[s].symbols[name] \in same
           /\ \A X \in same : X <= t.scopes[s].symbols[name]

ParameterSymbols(t) ==
    { X \in DOMAIN t.symbols : "PARAMETER" \in t.symbols[X].flags }

\* range inner lies inside range outer
RangeInside(inner, outer) ==
    PosLeq(outer.start, inner.start) /\ PosLeq(inner.end, outer.end)

(***************************************************************************)
(* C16: the range of a Function scope covers the parameters as well as the *)
(* body: the name_range of every parameter symbol lies inside the range of *)
(* the Function scope that owns it, and scope_at_position at the           *)
(* parameter's name returns that scope.                                    *)
(***************************************************************************)
C16_AsStated ==
    \A t \in Tables : \A X \in ParameterSymbols(t) :
       LET owner == t.symbols[X].scope_id IN
       t.scopes[owner].kind = "Function" =>
       /\ RangeInside(t.symbols[X].name_range, t.scopes[owner].range)
       /\ scope_at_position(t, t.symbols[X].name_range.start) = owner


\* the ranges recorded as references of symbol X of table t
ReferencesOf(t, X) ==
    { t.symbols[X].references[i] : i \in 1..Len(t.symbols[X].references) }

(***************************************************************************)
(* C17: no symbol's references contain its own name_range: the declaring   *)
(* identifier of a symbol (catch parameters, function parameters and       *)
(* destructured names included) is never recorded as a reference to it.    *)
(***************************************************************************)
C17_AsStated ==
    \A t \in Tables : \A X \in DOMAIN t.symbols :
       t.symbols[X].name_range \notin ReferencesOf(t, X)


\* following parents from scope s comes back to a scope already passed
Revisits(t, s) ==
    LET chain == ChainSeq(t, s) IN
    /\ chain # <<>>
    /\ LET last == t.scopes[chain[Len(chain)]] IN
       /\ IsSome(last.parent)
       /\ \E i \in 1..Len(chain) : chain[i] = last.parent[1]

(***************************************************************************)
(* C18: lookup and lookup_type terminate on every table a sequence of      *)
(* create_scope and create_symbol calls can produce, calls that name an    *)
(* unknown or not-yet-allocated parent id included: the parent chain they  *)
(* follow is finite and never comes back to a scope.                       *)
(***************************************************************************)
C18_AsStated ==
    \A s \in DOMAIN symbol_table.scopes :
       /\ ~Revisits(symbol_table, s)
       /\ \A name \in ApiNames :
             /\ lookup(symbol_table, name, s) # Diverges
             /\ lookup_type(symbol_table, name, s) # Diverges


(***************************************************************************)
(* Declaring and referring identifiers as the language reads them.         *)
(***************************************************************************)
\* the identifier nodes of tree tr that name what a declaration declares
DeclarationSites(tr) ==
    UNION { LET field(f) == child_by_field_name(tr, d, f)
                leaves(f) == IF IsSome(field(f))
                             THEN PatternLeaves(tr, field(f)[1]) ELSE {}
                one(f) == IF IsSome(field(f)) THEN {field(f)[1]} ELSE {}
            IN  CASE tr[d].kind = "variable_declarator" -> leaves("name")
                  [] tr[d].kind \in { "function_declaration",
                                      "class_declaration",
                                      "interface_declaration",
                                      "type_alias_declaration",
                                      "enum_declaration",
                                      "method_definition" } -> one("name")
                  [] tr[d].kind \in { "required_parameter",
                                      "optional_parameter",
                                      "rest_parameter" } -> leaves("pattern")
                  [] tr[d].kind = "arrow_function" -> one("parameter")
                  [] tr[d].kind = "catch_clause" -> leaves("parameter")
                  [] tr[d].kind = "import_statement" ->
                        { n \in DOMAIN tr : IsUnder(tr, n, d) }
                  [] OTHER -> {}
            : d \in DOMAIN tr }

\* the identifier nodes that use a name
NonDeclarationIdentifiers(tr) ==
    { n \in DOMAIN tr : tr[n].kind = "identifier" } \ DeclarationSites(tr)

(***************************************************************************)
(* C19: every identifier node that is not the name of a declaration is     *)
(* looked up exactly once, from the scope current where the walk meets it, *)
(* and its range is recorded on the symbol found; no subtree (class        *)
(* heritage, parameter default values, pattern default values,             *)
(* initializers) is skipped.                                               *)
(***************************************************************************)
C19_AsStated ==
    /\ [](Bound => \A n \in NonDeclarationIdentifiers(tree) :
                      Count(visited, n) = 1)
    /\ [][ /\ pc = "binding" /\ stack # <<>> /\ Head(stack).op = "visit"
           /\ Node \in NonDeclarationIdentifiers(tree)
           => LET hit == lookup(symbol_table, node_text(tree, Node),
                                current_scope)
              IN  IF IsSome(hit)
                  THEN symbol_table'
                          = [symbol_table EXCEPT
                               !.symbols[hit[1]].references
                                  = Append(@, node_range(tree, Node))]
                  ELSE symbol_table' = symbol_table ]_vars


\* sequence a is the beginning of sequence b
IsPrefix(a, b) ==
    Len(a) <= Len(b) /\ \A i \in 1..Len(a) : a[i] = b[i]

\* x; const x = 1;
UseBeforeConstX ==
    Arena(Program(<<ExprStmt(Id("x")),
                    Lexical("const", Id("x"), Initializer(Num))>>))

(***************************************************************************)
(* C20: resolution is textual.  A step of the walk records a reference     *)
(* only on a symbol created by an earlier step, and what it records is the *)
(* range of the identifier it is visiting; a symbol starts without         *)
(* references, so an identifier visited before the declaration of its name *)
(* is not recorded on it (`x; const x = 1;` leaves x without references);  *)
(* references once recorded are never moved or removed.                    *)
(***************************************************************************)
C20_Textual ==
    /\ [][ pc = "binding" /\ pc' = "binding"
           => /\ \A X \in NewSymbols :
                    symbol_table'.symbols[X].references = <<>>
              /\ \A X \in DOMAIN symbol_table.symbols :
                    /\ X \in DOMAIN symbol_table'.symbols
                    /\ LET old == symbol_table.symbols[X].references
                           new == symbol_table'.symbols[X].references
                       IN  \/ new = old
                           \/ /\ new = Append(old, node_range(tree, Node))
                              /\ tree[Node].kind = "identifier"
                              /\ node_text(tree, Node)
                                    = symbol_table.symbols[X].name ]_vars
    /\ [][ doc_symbol_table # None /\ doc_symbol_table' # None
           /\ ~(pc = "binding" /\ pc' = "idle" /\ rebound)
           => doc_symbol_table' = doc_symbol_table ]_vars
    /\ [](Bound /\ tree = UseBeforeConstX
          => \A X \in DOMAIN doc_symbol_table[1].symbols :
                doc_symbol_table[1].symbols[X].references = <<>>)

\* `x; const x = 1;` is bound: the use of x was visited, x is declared, and
\* scope 0 holds it
C20_Witness ==
    /\ Bound
    /\ tree = UseBeforeConstX
    /\ \E i \in 1..Len(visited) :
          /\ tree[visited[i]].kind = "identifier"
          /\ parent_kind(tree, visited[i]) = "expression_statement"
    /\ IsSome(lookup(doc_symbol_table[1], "x", 0))


\* the walk is at a declarator of a var declaration
AtVarDeclarator ==
    /\ pc = "binding" /\ stack # <<>> /\ Head(stack).op = "declarator"
    /\ tree[Node].kind = "variable_declarator"
    /\ parent_kind(tree, Node) = "variable_declaration"
    /\ IsSome(child_by_field_name(tree, Node, "name"))

\* { var x = 1; }
BlockVarX ==
    Arena(Program(<<Block(<<VarDecl(Id("x"), Initializer(Num))>>)>>))

(***************************************************************************)
(* C21: a var declaration binds its names with flags VARIABLE|HOISTED into *)
(* the scope current when the declaration is visited, never into an        *)
(* ancestor: no other scope changes, a var declared inside a block is      *)
(* owned by that Block scope, and lookup from the enclosing scopes does    *)
(* not find it (`{ var x = 1; }`: lookup of x from scope 0 is none).       *)
(***************************************************************************)
C21_VarInCurrentScope ==
    /\ [][ AtVarDeclarator
           => LET name == child_by_field_name(tree, Node, "name")[1] IN
              /\ \A X \in NewSymbols :
                    /\ symbol_table'.symbols[X].flags = {"VARIABLE", "HOISTED"}
                    /\ symbol_table'.symbols[X].scope_id = current_scope
                    /\ lookup(symbol_table', symbol_table'.symbols[X].name,
                              current_scope) = Some(X)
              /\ tree[name].kind = "identifier"
                 => \E X \in NewSymbols :
                       /\ NewSymbols = {X}
                       /\ symbol_table'.symbols[X].name = node_text(tree, name)
                       /\ symbol_table'.symbols[X].name_range
                             = node_range(tree, name)
              /\ \A s \in DOMAIN symbol_table.scopes :
                    s # current_scope
                    => symbol_table'.scopes[s] = symbol_table.scopes[s]
              /\ current_scope' = current_scope ]_vars
    /\ [](\A t \in Tables : \A X \in DOMAIN t.symbols :
             "HOISTED" \in t.symbols[X].flags
             => \A s \in DOMAIN t.scopes :
                   IsDescendant(t, t.symbols[X].scope_id, s)
                   => lookup(t, t.symbols[X].name, s) # Some(X))
    /\ [](Bound /\ tree = BlockVarX
          => LET t == doc_symbol_table[1] IN
             /\ DOMAIN t.symbols = {0}
             /\ t.symbols[0].flags = {"VARIABLE", "HOISTED"}
             /\ t.scopes[t.symbols[0].scope_id].kind = "Block"
             /\ lookup(t, "x", 0) = None)

\* `{ var x = 1; }` is bound: x is a symbol of the Block scope, found from
\* it and not from scope 0
C21_Witness ==
    /\ Bound
    /\ tree = BlockVarX
    /\ LET t == doc_symbol_table[1] IN
       /\ 0 \in DOMAIN t.symbols
       /\ t.symbols[0].scope_id = 1
       /\ t.scopes[1].kind = "Block"
       /\ lookup(t, "x", 1) = Some(0)
       /\ lookup(t, "x", 0) = None


\* the patterns the step at hand binds, each with the flags of its
\* declaration: the name of a declarator, the patterns of the parameters of
\* a function-like declaration, the parameter of a catch clause
PatternsAtHand ==
    IF pc # "binding" \/ stack = <<>> THEN {}
    ELSE LET field(n, f) == child_by_field_name(tree, n, f)
             entries == IF IsSome(field(Node, "parameters"))
                        THEN tree[field(Node, "parameters")[1]].children
                        ELSE <<>>
         IN  CASE Head(stack).op = "declarator"
                  /\ tree[Node].kind = "variable_declarator"
                  /\ IsSome(field(Node, "name")) ->
                     { << field(Node, "name")[1],
                          IF parent_kind(tree, Node) = "variable_declaration"
                          THEN {"VARIABLE", "HOISTED"}
                          ELSE LexicalFlags(tree[Node].parent) >> }
               [] Head(stack).op = "visit"
                  /\ tree[Node].kind \in FunctionLikeKinds ->
                     { << field(entries[i], "pattern")[1], {"PARAMETER"} >> :
                         i \in { j \in 1..Len(entries) :
                                   IsSome(field(entries[j], "pattern")) } }
               [] Head(stack).op = "visit"
                  /\ tree[Node].kind = "catch_clause"
                  /\ IsSome(field(Node, "parameter")) ->
                     { << field(Node, "parameter")[1], {"PARAMETER"} >> }
               [] OTHER -> {}

(***************************************************************************)
(* C22: for any binding pattern of a variable declaration, of a parameter  *)
(* or of a catch parameter, every leaf identifier of the pattern (those    *)
(* under shorthand, renamed, default-value and rest sub-patterns and       *)
(* array holes included) becomes exactly one symbol, in the scope current  *)
(* for the declaration, carrying the declaration's flags.                  *)
(***************************************************************************)
C22_AsStated ==
    [][ \A pf \in PatternsAtHand : \A l \in PatternLeaves(tree, pf[1]) :
           \E X \in NewSymbols :
              /\ symbol_table'.symbols[X].name_range = node_range(tree, l)
              /\ symbol_table'.symbols[X].name = node_text(tree, l)
              /\ symbol_table'.symbols[X].flags = pf[2]
              /\ symbol_table'.symbols[X].scope_id = current_scope'
              /\ \A Y \in NewSymbols :
                    symbol_table'.symbols[Y].name_range = node_range(tree, l)
                    => Y = X ]_vars


\* the statement block n is the body of a function-like parent
IsFunctionBody(tr, n) ==
    /\ parent_kind(tr, n) \in { "function_declaration", "function",
                                "arrow_function", "method_definition" }
    /\ child_by_field_name(tr, tr[n].parent, "body") = Some(n)

\* the Block scopes of table t whose range is that of node n
BlockScopesOf(t, n) ==
    { s \in DOMAIN t.scopes :
        /\ t.scopes[s].kind = "Block"
        /\ t.scopes[s].range = node_range(tree, n) }

\* the walk is at a statement block
AtBlock ==
    /\ pc = "binding" /\ stack # <<>> /\ Head(stack).op = "visit"
    /\ tree[Node].kind = "statement_block"

(***************************************************************************)
(* C23: a statement block opens exactly one scope, of kind Block, child of *)
(* the scope current when it is visited, unless it is the body of a        *)
(* function-like parent, and then it opens none; so the body of an if or   *)
(* try statement (any block the walk visits that is no function body) has  *)
(* its own Block scope, and the body of a function-like construct never    *)
(* has one.                                                                *)
(***************************************************************************)
C23_BlockScopes ==
    /\ [][ AtBlock
           => IF IsFunctionBody(tree, Node)
              THEN /\ symbol_table'.scopes = symbol_table.scopes
                   /\ current_scope' = current_scope
              ELSE LET new == symbol_table.next_scope_id IN
                   /\ DOMAIN symbol_table'.scopes
                         = DOMAIN symbol_table.scopes \cup {new}
                   /\ new \notin DOMAIN symbol_table.scopes
                   /\ symbol_table'.scopes[new].kind = "Block"
                   /\ symbol_table'.scopes[new].parent = Some(current_scope)
                   /\ symbol_table'.scopes[new].range = node_range(tree, Node)
                   /\ current_scope' = new ]_vars
    /\ [](Bound
          => \A n \in DOMAIN tree :
                tree[n].kind = "statement_block"
                => Cardinality(BlockScopesOf(doc_symbol_table[1], n))
                      = (IF IsFunctionBody(tree, n) \/ Count(visited, n) = 0
                         THEN 0 ELSE 1))

\* an arrow function whose body block holds a block is bound: the inner
\* block has a Block scope under the Function scope, the body has none
C23_Witness ==
    /\ Bound
    /\ \E n \in DOMAIN tree : \E m \in DOMAIN tree :
          LET t == doc_symbol_table[1] IN
          /\ tree[n].kind = "statement_block"
          /\ parent_kind(tree, n) = "arrow_function"
          /\ tree[m].kind = "statement_block"
          /\ tree[m].parent = n
          /\ BlockScopesOf(t, n) = {}
          /\ \E s \in BlockScopesOf(t, m) :
                t.scopes[t.scopes[s].parent[1]].kind = "Function"


\* the (scope, namespace) pairs of table t that map the name of symbol X
\* to X; the namespace is TRUE for the type namespace
IndexedAt(t, X) ==
    { sn \in (DOMAIN t.scopes) \X BOOLEAN :
        LET ns == Namespace(t.scopes[sn[1]], sn[2]) IN
        /\ t.symbols[X].name \in DOMAIN ns
        /\ ns[t.symbols[X].name] = X }

\* the pair the flags and the scope_id of X name
HomeOf(t, X) == << t.symbols[X].scope_id, ~IsValueSymbol(t.symbols[X]) >>

\* a symbol created after X with X's name, scope and namespace
Overwritten(t, X) ==
    \E Y \in DOMAIN t.symbols :
       /\ Y > X
       /\ t.symbols[Y].name = t.symbols[X].name
       /\ HomeOf(t, Y) = HomeOf(t, X)

(***************************************************************************)
(* C24 as stated: every symbol of a table the binder builds is indexed in  *)
(* exactly one namespace of exactly one scope, the one its scope_id names: *)
(* exactly one (scope, namespace) pair maps X.name to X.id.                *)
(***************************************************************************)
C24_AsStated ==
    \A t \in Tables : \A X \in DOMAIN t.symbols :
       IndexedAt(t, X) = { HomeOf(t, X) }

(***************************************************************************)
(* C24, amended: every symbol of a table the binder builds is indexed in   *)
(* at most one namespace of one scope, the one its scope_id and flags      *)
(* name; it is indexed there exactly when no later symbol of the same      *)
(* name was created in that scope and namespace (the last one wins the     *)
(* entry).                                                                 *)
(***************************************************************************)
C24_IndexedAtMostOnce ==
    \A t \in Tables : \A X \in DOMAIN t.symbols :
       /\ t.symbols[X].scope_id \in DOMAIN t.scopes
       /\ IndexedAt(t, X)
             = (IF Overwritten(t, X) THEN {} ELSE { HomeOf(t, X) })

\* a bound table holds two symbols of one name and scope: the later one is
\* indexed, the earlier one nowhere
C24_Witness ==
    /\ Bound
    /\ \E X \in DOMAIN doc_symbol_table[1].symbols :
       \E Y \in DOMAIN doc_symbol_table[1].symbols :
          LET t == doc_symbol_table[1] IN
          /\ X < Y
          /\ t.symbols[X].name = t.symbols[Y].name
          /\ t.symbols[X].scope_id = t.symbols[Y].scope_id
          /\ IndexedAt(t, X) = {}
          /\ IndexedAt(t, Y) = { HomeOf(t, Y) }


\* the last column of the positions looked at
MaxColumn == 12

\* positions on the lines of the source, one past it, and one the range of
\* scope 0 does not contain
Positions ==
    { Position(0, c) : c \in 0..MaxColumn }
        \cup { Position(1, 0), Position(1, 1), Position(U32Max, 1) }

\* the ranges of a and b share no position (both ends count)
Disjoint(a, b) ==
    \/ ~PosLeq(b.start, a.end)
    \/ ~PosLeq(a.start, b.end)

\* in table t every listed child's range lies inside that of the scope that
\* lists it, and the children of one scope are pairwise disjoint
NestedAndDisjoint(t) ==
    \A p \in DOMAIN t.scopes :
       LET kids == t.scopes[p].children IN
       \A i \in 1..Len(kids) :
          /\ RangeInside(t.scopes[kids[i]].range, t.scopes[p].range)
          /\ \A j \in 1..Len(kids) :
                i # j => Disjoint(t.scopes[kids[i]].range,
                                  t.scopes[kids[j]].range)

\* r is where the descent of table t for pos ends: every scope on the way
\* from r up to scope 0 is the first child of its parent, in creation
\* order, that contains pos, and no child of r contains pos
IsDescentEnd(t, r, pos) ==
    LET chain == ChainSeq(t, r) IN
    /\ chain # <<>>
    /\ chain[Len(chain)] = 0
    /\ \A i \in 1..(Len(chain) - 1) :
          LET kids == t.scopes[chain[i + 1]].children IN
          \E k \in 1..Len(kids) :
             /\ kids[k] = chain[i]
             /\ contains_position(t.scopes[chain[i]], pos)
             /\ \A j \in 1..(k - 1) :
                   ~contains_position(t.scopes[kids[j]], pos)
    /\ \A k \in 1..Len(t.scopes[r].children) :
          ~contains_position(t.scopes[t.scopes[r].children[k]], pos)

\* the scopes of table t that the child lists lead to from scope s
RECURSIVE ListedBelow(_, _)
ListedBelow(t, s) ==
    {s} \cup UNION { ListedBelow(t, t.scopes[s].children[i]) :
                       i \in 1..Len(t.scopes[s].children) }

C26_RangesNest ==
    \A t \in Tables : \A s \in DOMAIN t.scopes \ {0} :
       /\ IsSome(t.scopes[s].parent)
       /\ t.scopes[s].parent[1] \in DOMAIN t.scopes
       /\ LET parent == t.scopes[t.scopes[s].parent[1]] IN
          /\ PosLeq(parent.range.start, t.scopes[s].range.start)
          /\ PosLeq(t.scopes[s].range.end, parent.range.end)

\* a table is returned with a scope two levels below scope 0 whose range is
\* smaller than its parent's, which is smaller than scope 0's
C26_Witness ==
    /\ Bound
    /\ \E s \in DOMAIN doc_symbol_table[1].scopes :
          LET t == doc_symbol_table[1] IN
          /\ s # 0
          /\ t.scopes[s].parent # Some(0)
          /\ t.scopes[s].range # t.scopes[t.scopes[s].parent[1]].range
          /\ t.scopes[t.scopes[s].parent[1]].range # t.scopes[0].range


\* the walk is at a node of one of the kinds
AtKind(kinds) ==
    /\ pc = "binding" /\ stack # <<>> /\ Head(stack).op = "visit"
    /\ tree[Node].kind \in kinds

\* the scopes a step has added to the table
NewScopes == DOMAIN symbol_table'.scopes \ DOMAIN symbol_table.scopes

\* the step creates one symbol for the name of the node at hand, flagged
\* with flag, in the value namespace of the current scope, if the node has
\* a name, and none if it has not
NamesOneSymbol(flag) ==
    LET name == child_by_field_name(tree, Node, "name") IN
    IF IsSome(name)
    THEN \E X \in NewSymbols :
            /\ { Y \in NewSymbols :
                   flag \in symbol_table'.symbols[Y].flags } = {X}
            /\ symbol_table'.symbols[X].name = node_text(tree, name[1])
            /\ symbol_table'.symbols[X].name_range = node_range(tree, name[1])
            /\ symbol_table'.symbols[X].scope_id = current_scope
            /\ lookup_local(symbol_table'.scopes[current_scope],
                            node_text(tree, name[1])) = Some(X)
    ELSE \A Y \in NewSymbols : flag \notin symbol_table'.symbols[Y].flags

\* the step opens one scope of the kind for the body of the node at hand,
\* under the current scope, if the node has a body, and none if it has not
OpensOneScope(kind) ==
    LET body == child_by_field_name(tree, Node, "body") IN
    IF IsSome(body)
    THEN /\ NewScopes = {symbol_table.next_scope_id}
         /\ \A s \in NewScopes :
               /\ symbol_table'.scopes[s].kind = kind
               /\ symbol_table'.scopes[s].parent = Some(current_scope)
               /\ symbol_table'.scopes[s].range = node_range(tree, body[1])
               /\ current_scope' = s
    ELSE NewScopes = {} /\ current_scope' = current_scope

\* class C { m() {} m() {} }
ClassTwoMethods ==
    Arena(Program(<<Class(Named(TypeId("C")), <<>>,
                          <<Method(<<>>, Named(PropId("m")), <<>>, Body(<<>>)),
                            Method(<<>>, Named(PropId("m")), <<>>,
                                   Body(<<>>))>>)>>))

TypeLevelKinds ==
    { "interface_declaration", "type_alias_declaration", "enum_declaration" }

\* the flag and the namespace (TRUE: the type namespace) of a declaration
\* of the kind
TypeLevelFlag(kind) ==
    CASE kind = "interface_declaration" -> "INTERFACE"
      [] kind = "type_alias_declaration" -> "TYPE_ALIAS"
      [] kind = "enum_declaration" -> "ENUM"

\* the step at an interface, type alias or enum creates one symbol for its
\* name in the namespace of its kind in the current scope (none if the
\* parser recovered no name), opens no scope and keeps the current scope
BindsTypeLevel ==
    LET name == child_by_field_name(tree, Node, "name")
        flag == TypeLevelFlag(tree[Node].kind)
        types == tree[Node].kind # "enum_declaration"
    IN  /\ NewScopes = {}
        /\ current_scope' = current_scope
        /\ IF IsSome(name)
           THEN \E X \in NewSymbols :
                   /\ NewSymbols = {X}
                   /\ flag \in symbol_table'.symbols[X].flags
                   /\ symbol_table'.symbols[X].name = node_text(tree, name[1])
                   /\ symbol_table'.symbols[X].name_range
                         = node_range(tree, name[1])
                   /\ symbol_table'.symbols[X].scope_id = current_scope
                   /\ IndexedAt(symbol_table', X) = { <<current_scope, types>> }
           ELSE NewSymbols = {}

\* the scopes of table t, other than scope 0, whose range lies inside the
\* range of node d: those created while d was bound
ScopesWithin(t, d) ==
    { s \in DOMAIN t.scopes \ {0} :
        RangeInside(t.scopes[s].range, node_range(tree, d)) }

\* no symbol of table t is named by a member of an enum
NoEnumMemberSymbols(t) ==
    \A n \in DOMAIN tree :
       tree[n].kind = "property_identifier"
       /\ (\E d \in DOMAIN tree :
              tree[d].kind = "enum_declaration" /\ IsUnder(tree, n, d))
       => \A X \in DOMAIN t.symbols :
             t.symbols[X].name_range # node_range(tree, n)

(***************************************************************************)
(* C28 as stated: an interface, type-alias or enum declaration creates     *)
(* exactly one symbol in the current scope (type namespace for interface   *)
(* and type alias, value namespace for enum) and opens no scope: the       *)
(* scopes and the current scope are the same before and after the          *)
(* declaration is bound, and enum members create no symbols.               *)
(***************************************************************************)
C28_AsStated ==
    /\ [][ AtKind(TypeLevelKinds) => BindsTypeLevel ]_vars
    /\ [](\A t \in Tables : \A d \in DOMAIN tree :
             tree[d].kind \in TypeLevelKinds => ScopesWithin(t, d) = {})
    /\ [](\A t \in Tables : NoEnumMemberSymbols(t))

(***************************************************************************)
(* C28, amended: the same, except that an expression inside the            *)
(* declaration that opens a scope of its own (an arrow function in an enum *)
(* member's initializer) still gets that scope: every scope created while  *)
(* the declaration is bound is the scope of an arrow function below it.    *)
(***************************************************************************)
C28_TypeLevelDeclarations ==
    /\ [][ AtKind(TypeLevelKinds) => BindsTypeLevel ]_vars
    /\ [](\A t \in Tables : \A d \in DOMAIN tree :
             tree[d].kind \in TypeLevelKinds
             => \A s \in ScopesWithin(t, d) :
                   /\ t.scopes[s].kind = "Function"
                   /\ \E n \in DOMAIN tree :
                         /\ n # d /\ IsUnder(tree, n, d)
                         /\ tree[n].kind = "arrow_function"
                         /\ node_range(tree, n) = t.scopes[s].range)
    /\ [](\A t \in Tables : NoEnumMemberSymbols(t))

\* an enum whose member is initialized by a call of an arrow function is
\* bound: the enum is the one symbol, and the arrow function has its scope
C28_Witness ==
    /\ Bound
    /\ \E d \in DOMAIN tree :
          LET t == doc_symbol_table[1] IN
          /\ tree[d].kind = "enum_declaration"
          /\ ScopesWithin(t, d) # {}
          /\ DOMAIN t.symbols = {0}
          /\ t.symbols[0].flags = {"ENUM"}
          /\ lookup(t, "x", 0) = Some(0)
          /\ lookup_type(t, "x", 0) = None


\* the step is the exit of a scope-opening construct
AtExit ==
    pc = "binding" /\ stack # <<>> /\ Head(stack).op = "restore"

\* the nodes whose handler opens a scope: function, method and class
\* declarations with a body, arrow functions, blocks that are no function
\* body, catch clauses
OpensScope(n) ==
    \/ /\ tree[n].kind \in { "function_declaration", "method_definition",
                             "class_declaration" }
       /\ IsSome(child_by_field_name(tree, n, "body"))
    \/ tree[n].kind \in { "arrow_function", "catch_clause" }
    \/ tree[n].kind = "statement_block" /\ ~IsFunctionBody(tree, n)

(***************************************************************************)
(* C29: scope push/pop discipline.  Throughout the walk the binder's       *)
(* current scope is an existing scope; the handler of a scope-opening      *)
(* construct (function body, arrow function, method body, class body,      *)
(* standalone block, catch clause) makes the scope it creates current, and *)
(* that scope's parent is the scope current when the node was visited; its *)
(* exit restores exactly the scope current before; no other step moves the *)
(* pointer; so the pointer is 0 when bind returns.                         *)
(***************************************************************************)
C29_PushPop ==
    /\ [](current_scope \in DOMAIN symbol_table.scopes)
    /\ [][ pc = "binding" /\ pc' = "binding"
           => IF AtExit
              THEN /\ symbol_table.scopes[current_scope].parent
                         = Some(current_scope')
                   /\ symbol_table' = symbol_table
              ELSE IF Head(stack).op = "visit" /\ OpensScope(Node)
              THEN /\ NewScopes = {symbol_table.next_scope_id}
                   /\ current_scope' = symbol_table.next_scope_id
                   /\ symbol_table'.scopes[current_scope'].parent
                         = Some(current_scope)
                   /\ current_scope \in DOMAIN symbol_table.scopes
              ELSE /\ NewScopes = {}
                   /\ current_scope' = current_scope ]_vars
    /\ [](pc = "binding" /\ stack = <<>> => current_scope = 0)
    /\ [](Bound => current_scope = 0)

\* the walk is two scopes deep and about to leave the inner one
C29_Witness ==
    /\ AtExit
    /\ current_scope # 0
    /\ symbol_table.scopes[current_scope].parent # Some(0)
    /\ Head(stack).scope = symbol_table.scopes[current_scope].parent[1]

\* the symbol ids a caller may hold that the table t does not know
UnknownSymbolIds(t) == { t.next_symbol_id, t.next_symbol_id + 1 }

(***************************************************************************)
(* C30: namespace index consistency.  After any sequence of create_symbol, *)
(* create_scope and add_reference calls, every entry name -> id of a       *)
(* scope's value or type namespace points to an existing symbol of that    *)
(* name whose scope_id is that scope's id; the symbol of an entry of the   *)
(* type namespace carries at least one of INTERFACE, TYPE_ALIAS and        *)
(* TYPE_PARAMETER, the symbol of an entry of the value namespace none of   *)
(* them; and add_reference for an unknown symbol id leaves the table as it *)
(* was.                                                                    *)
(***************************************************************************)
C30_IndexConsistency ==
    /\ \A s \in DOMAIN symbol_table.scopes : \A types \in BOOLEAN :
          LET ns == Namespace(symbol_table.scopes[s], types) IN
          \A name \in DOMAIN ns :
             /\ ns[name] \in DOMAIN symbol_table.symbols
             /\ symbol_table.symbols[ns[name]].id = ns[name]
             /\ symbol_table.symbols[ns[name]].name = name
             /\ symbol_table.symbols[ns[name]].scope_id = s
             /\ symbol_table.scopes[s].id = s
             /\ intersects(symbol_table.symbols[ns[name]].flags,
                           TypeNamespaceFlags) = types
    /\ \A id \in UnknownSymbolIds(symbol_table) :
          add_reference(symbol_table, id, ApiRange) = symbol_table

\* a table with an entry in a value namespace, one in a type namespace and
\* a symbol that is in neither
C30_Witness ==
    /\ \E s \in DOMAIN symbol_table.scopes :
          symbol_table.scopes[s].symbols # EmptyMap
    /\ \E s \in DOMAIN symbol_table.scopes :
          symbol_table.scopes[s].type_symbols # EmptyMap
    /\ \E X \in DOMAIN symbol_table.symbols : IndexedAt(symbol_table, X) = {}

====
